---- MODULE Spec2Model ----
(***************************************************************************)
(* Model of the four seeding pipelines of the BPS enrollment dashboard     *)
(* (scripts/seed_attendance.py, seed_enrollment.py, seed_mcas.py,          *)
(* seed_schools.py): the pipeline driver main(), the sink client factory   *)
(* get_supabase_client() and the batch loader insert_*().                  *)
(*                                                                         *)
(* The four loaders are the same code up to the table name and the         *)
(* on_conflict string, so they are one set of actions indexed by `domain`. *)
(***************************************************************************)
EXTENDS Integers, Sequences, FiniteSets, TLC

\* ------------------------------------------------------------------ bounds
\* longest record list handed to a live load
MaxLen == 4
\* longest record list handed to a dry-run load (must exceed PreviewLimit)
MaxDryLen == 6
\* longest record list in the runs checked for termination
MaxFairLen == 3
\* longest record list a whole pipeline run extracts for a live load
MaxMainLen == 4
\* largest batch size tried (the scripts' default of 100 stands for any B >= 1)
MaxBatch == 3
\* number of distinct row contents in the fact domains
MaxRec == 2
\* longest generated cell text
MaxStrLen == 3
\* most words in a generated organization type
MaxTokens == 2

\* ------------------------------------------------------- program constants
\* records[:5] in the dry-run branch of every loader
PreviewLimit == 5

Domains == {"attendance", "enrollment", "mcas", "schools"}

\* supabase.table(<name>) of each loader
TableName == [d \in Domains |->
    CASE d = "attendance" -> "attendance"
      [] d = "enrollment" -> "enrollment"
      [] d = "mcas"       -> "mcas_results"
      [] d = "schools"    -> "schools"]

\* the on_conflict argument of each loader's batch upsert, split at the commas
OnConflict == [d \in Domains |->
    CASE d = "attendance" -> <<"school_id", "school_year", "attendance_period", "student_group">>
      [] d = "enrollment" -> <<"school_id", "school_year">>
      [] d = "mcas"       -> <<"school_id", "school_year", "test_grade", "subject_code", "student_group">>
      [] d = "schools"    -> <<"school_id">>]

\* the per-record fallback call is upsert(record) with no on_conflict argument
NoConflictTarget == <<>>

\* ----------------------------------------------------------------- helpers
Min(a, b) == IF a <= b THEN a ELSE b

Range(s) == {s[k] : k \in 1..Len(s)}

SeqsUpTo(S, n) == UNION {[1..k -> S] : k \in 0..n}

RECURSIVE PermsOf(_)
PermsOf(S) ==
    IF S = {} THEN {<<>>}
    ELSE UNION {{Append(p, x) : p \in PermsOf(S \ {x})} : x \in S}

\* every insertion order of a dict of k schools (k distinct school ids 1..k)
Perms(k) == PermsOf(1..k)

\* The record lists a loader can be handed: any list of rows in the fact
\* domains; the values of a dict keyed by school id in the directory domain.
RecordInputs(d, n) ==
    IF d = "schools" THEN UNION {Perms(k) : k \in 0..n}
    ELSE SeqsUpTo(1..MaxRec, n)

\* ---------------------------------------------------------------- state
VARIABLES
    domain,          \* which of the four scripts runs
    dry_run,         \* '--dry-run' in sys.argv / the loader's dry_run argument
    batch_size,      \* the loader's batch_size argument
    env,             \* SUPABASE_URL / SUPABASE_SERVICE_KEY set, create_client raising
    source,          \* what reading the CSV source gave
    records,         \* the validated records (main: extraction result)
    pc,              \* position of the run
    caller,          \* "main" when the loader was called by main()
    client_status,   \* outcome of get_supabase_client()
    create_calls,    \* number of create_client() calls made
    i,               \* loop offset of the batch loop
    j,               \* index inside the per-record fallback loop (1-based)
    total_inserted,
    total_errors,
    calls,           \* every upsert call issued against the sink, in order
    table,           \* rows stored in the sink table
    preview,         \* records logged as "Sample k" in dry-run mode
    success,         \* the loader's return value
    exit_code,       \* main()'s return value, -1 while running
    fn,              \* the coercion function or validator being applied
    arg,             \* its argument: a raw cell, or a raw row
    res,             \* what it returned (and, for a validator, what it logged)
    fpc,             \* "call" before the application, "done" after it
    src_idx,         \* directory fold: number of CSV_SOURCES entries handled
    src_status,      \* directory fold: what reading the last handled source gave
    pending,         \* directory fold: records of the current source not yet merged
    all_schools,     \* directory fold: the all_schools dict
    duplicate_count, \* directory fold: the overwrite counter
    history,         \* directory fold: every raw row read so far, with its source, in order
    fold_pc,         \* directory fold: position of collect_all_schools()
    runs,            \* two loads of one source against one sink: each load's position
    sink             \* the rows the shared sink table holds, as a bag

pureVars == <<fn, arg, res, fpc>>
foldVars == <<src_idx, src_status, pending, all_schools, duplicate_count, history, fold_pc>>
sinkVars == <<runs, sink>>

vars == <<domain, dry_run, batch_size, env, source, records, pc, caller,
          client_status, create_calls, i, j, total_inserted, total_errors,
          calls, table, preview, success, exit_code, pureVars, foldVars, sinkVars>>

\* what no step of a pipeline run changes
inputs == <<domain, dry_run, batch_size, env, caller, pureVars, foldVars, sinkVars>>
loaderVars == <<i, j, total_inserted, total_errors, calls, table, preview, success>>

\* ------------------------------------------------------- pure operators
\* mutant: the slice runs one element too far, record_dicts[i:i+batch_size+1]
BatchOf_sliceTooLong(recs, off, B) == SubSeq(recs, off + 1, Min(off + B + 1, Len(recs)))

\* batch = record_dicts[i:i+batch_size]
BatchOf(recs, off, B) == SubSeq(recs, off + 1, Min(off + B, Len(recs)))

\* mutant: the preview is not cut off, records[:]
Preview_wholeList(recs) == recs

\* records[:5]
Preview(recs) == SubSeq(recs, 1, Min(PreviewLimit, Len(recs)))

\* mutant: the loader reports success whatever it counted
LoaderResult_alwaysTrue(errs) == TRUE

\* return total_errors == 0
LoaderResult(errs) == (errs = 0)

\* mutant: the batch loop gives up after the first batch
LoopExhausted_afterFirstBatch(off, n) == off >= n \/ off > 0

\* range(0, len(record_dicts), batch_size) has no further offset
LoopExhausted(off, n) == off >= n

\* mutant: the fallback loop breaks after its first record
FallbackExhausted_afterFirstRecord(jj, batch) == TRUE

\* `for record in batch` has handled its last record
FallbackExhausted(jj, batch) == jj = Len(batch)

\* mutant: main() does not stop on an empty extraction
NothingToLoad_neverStops(recs) == FALSE

\* main(): `if not records` / `if not schools`
NothingToLoad(recs) == recs = <<>>

\* main(): return 0 if success else 1
MainStatus(ok) == IF ok THEN 0 ELSE 1

\* mutant: the check of SUPABASE_SERVICE_KEY is missing
GetSupabaseClient_skipsKeyCheck(e) ==
    IF ~e.url THEN "url_unset"
    ELSE IF e.raises THEN "create_failed"
    ELSE "connected"

\* get_supabase_client(): None unless both variables are set and
\* create_client() does not raise
GetSupabaseClient(e) ==
    IF ~e.url THEN "url_unset"
    ELSE IF ~e.key THEN "key_unset"
    ELSE IF e.raises THEN "create_failed"
    ELSE "connected"

\* the sink after a successful upsert of rows
Upsert(tbl, rows) == tbl \cup Range(rows)

\* ------------------------------------------------------------ the loader
\* mutant: the dry-run branch logs its preview and falls through into the load
LoaderDryRun_fallsThrough ==
    /\ pc = "loader_entry"
    /\ dry_run
    /\ preview' = Preview(records)
    /\ i' = 0
    /\ pc' = "batch_loop"
    /\ UNCHANGED <<inputs, source, records, client_status, create_calls,
                   j, total_inserted, total_errors, calls, table, success, exit_code>>

\* if dry_run: log the first five records, return True
LoaderDryRun ==
    /\ pc = "loader_entry"
    /\ dry_run
    /\ preview' = Preview(records)
    /\ success' = TRUE
    /\ pc' = "loader_return"
    /\ UNCHANGED <<inputs, source, records, client_status, create_calls,
                   i, j, total_inserted, total_errors, calls, table, exit_code>>

\* record_dicts = [...]; total_inserted = 0; total_errors = 0; enter the loop
LoaderStart ==
    /\ pc = "loader_entry"
    /\ ~dry_run
    /\ total_inserted' = 0
    /\ total_errors' = 0
    /\ i' = 0
    /\ pc' = "batch_loop"
    /\ UNCHANGED <<inputs, source, records, client_status, create_calls,
                   j, calls, table, preview, success, exit_code>>

\* one iteration of `for i in range(0, len(record_dicts), batch_size)` up to
\* the outcome of the batch upsert
LoaderBatch ==
    /\ pc = "batch_loop"
    /\ ~LoopExhausted(i, Len(records))
    /\ \E ok \in BOOLEAN :
        LET batch == BatchOf(records, i, batch_size)
            call  == [kind |-> "batch", tbl |-> TableName[domain], at |-> i,
                      rows |-> batch, on_conflict |-> OnConflict[domain], ok |-> ok]
        IN  /\ calls' = Append(calls, call)
            /\ IF ok
               THEN /\ total_inserted' = total_inserted + Len(batch)
                    /\ table' = Upsert(table, batch)
                    /\ i' = i + batch_size
                    /\ pc' = "batch_loop"
                    /\ UNCHANGED <<total_errors, j>>
               ELSE /\ total_errors' = total_errors + Len(batch)
                    /\ j' = 1
                    /\ pc' = "individual"
                    /\ UNCHANGED <<total_inserted, table, i>>
    /\ UNCHANGED <<inputs, source, records, client_status, create_calls,
                   preview, success, exit_code>>

\* one iteration of `for record in batch` in the except branch
LoaderIndividual ==
    /\ pc = "individual"
    /\ LET batch == BatchOf(records, i, batch_size) IN
       /\ j <= Len(batch)
       /\ \E ok \in BOOLEAN :
            LET call == [kind |-> "single", tbl |-> TableName[domain], at |-> i + j - 1,
                         rows |-> <<batch[j]>>, on_conflict |-> NoConflictTarget, ok |-> ok]
            IN  /\ calls' = Append(calls, call)
                /\ IF ok
                   THEN /\ total_inserted' = total_inserted + 1
                        /\ table' = Upsert(table, <<batch[j]>>)
                        /\ UNCHANGED total_errors
                   ELSE /\ total_errors' = total_errors + 1
                        /\ UNCHANGED <<total_inserted, table>>
       /\ IF FallbackExhausted(j, batch)
          THEN /\ i' = i + batch_size
               /\ j' = 0
               /\ pc' = "batch_loop"
          ELSE /\ j' = j + 1
               /\ UNCHANGED <<i, pc>>
    /\ UNCHANGED <<inputs, source, records, client_status, create_calls,
                   preview, success, exit_code>>

\* the loop is exhausted: return total_errors == 0
LoaderFinish ==
    /\ pc = "batch_loop"
    /\ LoopExhausted(i, Len(records))
    /\ success' = LoaderResult(total_errors)
    /\ pc' = "loader_return"
    /\ UNCHANGED <<inputs, source, records, client_status, create_calls,
                   i, j, total_inserted, total_errors, calls, table, preview, exit_code>>

LoaderNext ==
    \/ LoaderDryRun
    \/ LoaderStart
    \/ LoaderBatch
    \/ LoaderIndividual
    \/ LoaderFinish

\* ------------------------------------------------------------ the driver
SourceStatuses == {"not_found", "empty", "malformed", "ok"}

\* Step 1 of main(): records = extract_*_records(); if not records: return 1
\* An unreadable source gives []; a readable one gives the rows the validator
\* accepted, possibly none.
MainExtract ==
    /\ pc = "main_start"
    /\ \E st \in SourceStatuses :
       \E recs \in RecordInputs(domain, IF dry_run THEN MaxDryLen ELSE MaxMainLen) :
        /\ st # "ok" => recs = <<>>
        /\ source' = st
        /\ records' = recs
        /\ IF NothingToLoad(recs)
           THEN /\ exit_code' = 1
                /\ pc' = "main_done"
           ELSE /\ pc' = "main_extracted"
                /\ UNCHANGED exit_code
    /\ UNCHANGED <<inputs, client_status, create_calls, loaderVars>>

\* Step 2 of main(): supabase = get_supabase_client(); if not supabase: return 1
MainGetClient ==
    /\ pc = "main_extracted"
    /\ client_status' = GetSupabaseClient(env)
    /\ create_calls' = IF env.url /\ env.key THEN create_calls + 1 ELSE create_calls
    /\ IF client_status' = "connected"
       THEN /\ pc' = "loader_entry"
            /\ UNCHANGED exit_code
       ELSE /\ exit_code' = 1
            /\ pc' = "main_done"
    /\ UNCHANGED <<inputs, source, records, loaderVars>>

\* Step 3 of main(), after the loader returned: return 0 if success else 1
MainExit ==
    /\ pc = "loader_return"
    /\ caller = "main"
    /\ exit_code' = MainStatus(success)
    /\ pc' = "main_done"
    /\ UNCHANGED <<inputs, source, records, client_status, create_calls, loaderVars>>

\* --------------------------------------------------------- specifications
LoaderZero ==
    /\ i = 0
    /\ j = 0
    /\ total_inserted = 0
    /\ total_errors = 0
    /\ calls = <<>>
    /\ table = {}
    /\ preview = <<>>
    /\ success = FALSE

\* no pair of loads against a shared sink is being looked at
SinkIdle ==
    /\ runs = <<>>
    /\ sink = <<>>

\* no coercion function or validator is being applied
PureIdle ==
    /\ fn = "none"
    /\ arg = <<>>
    /\ res = <<>>
    /\ fpc = "idle"

\* collect_all_schools() is not running
FoldIdle ==
    /\ src_idx = 0
    /\ src_status = "none"
    /\ pending = <<>>
    /\ all_schools = <<>>
    /\ duplicate_count = 0
    /\ history = <<>>
    /\ fold_pc = "idle"

\* no pipeline run is in progress
PipelineIdle ==
    /\ domain = "schools"
    /\ dry_run = FALSE
    /\ batch_size = 1
    /\ env = [url |-> TRUE, key |-> TRUE, raises |-> FALSE]
    /\ source = "unread"
    /\ records = <<>>
    /\ pc = "idle"
    /\ caller = "none"
    /\ client_status = "not_requested"
    /\ create_calls = 0
    /\ LoaderZero
    /\ SinkIdle
    /\ exit_code = -1

\* a run of one script: python scripts/seed_<domain>.py [--dry-run]
Init ==
    /\ domain \in Domains
    /\ dry_run \in BOOLEAN
    /\ batch_size \in 1..MaxBatch
    /\ env \in [url : BOOLEAN, key : BOOLEAN, raises : BOOLEAN]
    /\ source = "unread"
    /\ records = <<>>
    /\ pc = "main_start"
    /\ caller = "main"
    /\ client_status = "not_requested"
    /\ create_calls = 0
    /\ LoaderZero
    /\ SinkIdle
    /\ exit_code = -1
    /\ PureIdle
    /\ FoldIdle

Next ==
    \/ MainExtract
    \/ MainGetClient
    \/ LoaderDryRun
    \/ LoaderStart
    \/ LoaderBatch
    \/ LoaderIndividual
    \/ LoaderFinish
    \/ MainExit

Spec == Init /\ [][Next]_vars

\* a direct call insert_<domain>(client, records, batch_size, dry_run) with at
\* most nLive records in a live load and nDry records in a dry run
LoaderInit(nLive, nDry) ==
    /\ domain \in Domains
    /\ dry_run \in BOOLEAN
    /\ batch_size \in 1..MaxBatch
    /\ env = [url |-> TRUE, key |-> TRUE, raises |-> FALSE]
    /\ source = "ok"
    /\ records \in RecordInputs(domain, IF dry_run THEN nDry ELSE nLive)
    /\ pc = "loader_entry"
    /\ caller = "direct"
    /\ client_status = "connected"
    /\ create_calls = 1
    /\ LoaderZero
    /\ SinkIdle
    /\ exit_code = -1
    /\ PureIdle
    /\ FoldIdle

InitLoader == LoaderInit(MaxLen, MaxDryLen)

SpecLoader == InitLoader /\ [][LoaderNext]_vars

InitLoaderFair == LoaderInit(MaxFairLen, MaxFairLen)

\* the loader is straight-line sequential code: it keeps running until it returns
FairSpecLoader == InitLoaderFair /\ [][LoaderNext]_vars /\ WF_vars(LoaderNext)

\* ================================================================ raw cells
\* A raw cell is what pandas hands a script for one column of one row: the
\* missing value NaN, None for a column the file does not have (row.get(col)),
\* a str, an int64 or a float64.  Text is a sequence of one-character strings.
\* A float is held in thousandths (93.2 is 93200).
NaN == [k |-> "nan", s |-> <<>>, n |-> 0]
Absent == [k |-> "none", s |-> <<>>, n |-> 0]
StrCell(t) == [k |-> "str", s |-> t, n |-> 0]
IntCell(v) == [k |-> "int", s |-> <<>>, n |-> v]
FloatCell(m) == [k |-> "float", s |-> <<>>, n |-> m]

\* coerced values: None, an int, a float in thousandths, float('nan'), +-inf
Null == [k |-> "null", n |-> 0]
IntVal(v) == [k |-> "int", n |-> v]
FloatVal(m) == [k |-> "float", n |-> m]
FloatNaN == [k |-> "float_nan", n |-> 0]
FloatInf(sign) == [k |-> "float_inf", n |-> sign]

DigitVal == [c \in {"0", "1", "2", "3", "4", "5", "6", "7", "8", "9"} |->
    CASE c = "0" -> 0 [] c = "1" -> 1 [] c = "2" -> 2 [] c = "3" -> 3 [] c = "4" -> 4
      [] c = "5" -> 5 [] c = "6" -> 6 [] c = "7" -> 7 [] c = "8" -> 8 [] c = "9" -> 9]

DigitChar == <<"0", "1", "2", "3", "4", "5", "6", "7", "8", "9">>

IsDigit(c) == c \in DOMAIN DigitVal

\* str.isspace() of one character
IsSpace(c) == c \in {" ", "\t", "\n"}

\* str.lower() of one character, for the letters the inputs use
LowerChar(c) ==
    CASE c = "A" -> "a" [] c = "C" -> "c" [] c = "D" -> "d" [] c = "E" -> "e"
      [] c = "H" -> "h" [] c = "I" -> "i" [] c = "L" -> "l" [] c = "N" -> "n"
      [] c = "O" -> "o" [] c = "P" -> "p" [] c = "R" -> "r" [] c = "S" -> "s"
      [] c = "T" -> "t" [] c = "X" -> "x"
      [] OTHER -> c

\* str.lower()
Lower(t) == [k \in 1..Len(t) |-> LowerChar(t[k])]

RECURSIVE LStrip(_)
LStrip(t) == IF t # <<>> /\ IsSpace(t[1]) THEN LStrip(Tail(t)) ELSE t

RECURSIVE RStrip(_)
RStrip(t) == IF t # <<>> /\ IsSpace(t[Len(t)]) THEN RStrip(SubSeq(t, 1, Len(t) - 1)) ELSE t

\* str.strip()
Strip(t) == RStrip(LStrip(t))

IsNotComma(c) == c # ","
IsNotPercent(c) == c # "%"

\* str.replace(',', '')
RemoveCommas(t) == SelectSeq(t, IsNotComma)

\* str.replace('%', '')
RemovePercents(t) == SelectSeq(t, IsNotPercent)

\* `sub in t`
Contains(t, sub) ==
    \E a \in 0..(Len(t) - Len(sub)) : SubSeq(t, a + 1, a + Len(sub)) = sub

RECURSIVE DigitsValue(_)
DigitsValue(ds) ==
    IF ds = <<>> THEN 0
    ELSE DigitsValue(SubSeq(ds, 1, Len(ds) - 1)) * 10 + DigitVal[ds[Len(ds)]]

AllDigits(ds) == \A k \in 1..Len(ds) : IsDigit(ds[k])

RECURSIVE NatText(_)
NatText(v) == IF v < 10 THEN <<DigitChar[v + 1]>> ELSE NatText(v \div 10) \o <<DigitChar[(v % 10) + 1]>>

\* the digits after the point in repr(float): no trailing zero, at least one digit
FracText(f) ==
    IF f % 100 = 0 THEN <<DigitChar[(f \div 100) + 1]>>
    ELSE IF f % 10 = 0 THEN <<DigitChar[(f \div 100) + 1], DigitChar[((f \div 10) % 10) + 1]>>
    ELSE <<DigitChar[(f \div 100) + 1], DigitChar[((f \div 10) % 10) + 1], DigitChar[(f % 10) + 1]>>

\* str(value) of a raw cell (cells hold no negative number)
PyStr(c) ==
    CASE c.k = "str"   -> c.s
      [] c.k = "int"   -> NatText(c.n)
      [] c.k = "float" -> NatText(c.n \div 1000) \o <<".">> \o FracText(c.n % 1000)
      [] c.k = "nan"   -> <<"n", "a", "n">>
      [] c.k = "none"  -> <<"N", "o", "n", "e">>

\* the sign and the unsigned rest of a stripped numeric text
SignOf(t) == IF t # <<>> /\ t[1] = "-" THEN -1 ELSE 1
Unsigned(t) == IF t # <<>> /\ t[1] \in {"-", "+"} THEN Tail(t) ELSE t

\* int(text): surrounding whitespace and one sign are allowed, then digits only
\* (the digit-group underscore is outside the alphabet of the inputs)
PyIntOfStr(t) ==
    LET u == Unsigned(Strip(t)) IN
    IF u # <<>> /\ AllDigits(u)
    THEN [ok |-> TRUE, n |-> SignOf(Strip(t)) * DigitsValue(u)]
    ELSE [ok |-> FALSE, n |-> 0]

\* position of the first "." in t, or 0
RECURSIVE PointAt(_, _)
PointAt(t, k) == IF k > Len(t) THEN 0 ELSE IF t[k] = "." THEN k ELSE PointAt(t, k + 1)

\* the first three digits after the point, as thousandths
Thousandths(fr) ==
    LET d(k) == IF k <= Len(fr) THEN DigitVal[fr[k]] ELSE 0
    IN  d(1) * 100 + d(2) * 10 + d(3)

\* float(text): surrounding whitespace and one sign are allowed, then digits
\* with at most one point and at least one digit, or nan / inf / infinity in
\* any case (exponents and underscores are outside the alphabet of the inputs)
PyFloatOfStr(t) ==
    LET st == Strip(t)
        u  == Unsigned(st)
        sg == SignOf(st)
        p  == PointAt(u, 1)
        ip == IF p = 0 THEN u ELSE SubSeq(u, 1, p - 1)
        fr == IF p = 0 THEN <<>> ELSE SubSeq(u, p + 1, Len(u))
    IN  IF Lower(u) = <<"n", "a", "n">> THEN [ok |-> TRUE, v |-> FloatNaN]
        ELSE IF Lower(u) \in {<<"i", "n", "f">>, <<"i", "n", "f", "i", "n", "i", "t", "y">>}
             THEN [ok |-> TRUE, v |-> FloatInf(sg)]
        ELSE IF AllDigits(ip) /\ AllDigits(fr) /\ Len(ip) + Len(fr) > 0
             THEN [ok |-> TRUE, v |-> FloatVal(sg * (DigitsValue(ip) * 1000 + Thousandths(fr)))]
        ELSE [ok |-> FALSE, v |-> Null]

\* pd.isna(value) / not pd.notna(value)
IsNa(c) == c.k \in {"nan", "none"}

\* value == '<text>'
EqText(c, t) == c.k = "str" /\ c.s = t

\* `pd.isna(value) or value == '' or value == 'N'`
IsNullCell(c) == IsNa(c) \/ EqText(c, <<>>) \/ EqText(c, <<"N">>)

\* ========================================================= field coercion
\* mutant: the thousands separators are not removed, int(str(value))
ParseInt_keepsCommas(c) ==
    IF IsNullCell(c) THEN Null
    ELSE LET r == PyIntOfStr(PyStr(c)) IN IF r.ok THEN IntVal(r.n) ELSE Null

\* parse_int() of seed_enrollment.py and seed_mcas.py
ParseInt(c) ==
    IF IsNullCell(c) THEN Null
    ELSE LET r == PyIntOfStr(RemoveCommas(PyStr(c))) IN IF r.ok THEN IntVal(r.n) ELSE Null

\* parse_decimal() of seed_attendance.py and seed_mcas.py
ParseDecimal(c) ==
    IF IsNullCell(c) THEN Null
    ELSE LET r == PyFloatOfStr(RemoveCommas(RemovePercents(PyStr(c)))) IN IF r.ok THEN r.v ELSE Null

\* parse_pct() of seed_enrollment.py: only the percent sign is removed
ParsePct(c) ==
    IF IsNullCell(c) THEN Null
    ELSE LET r == PyFloatOfStr(RemovePercents(PyStr(c))) IN IF r.ok THEN r.v ELSE Null

\* the decimal coercion each domain's validator uses for its rate columns
DecimalCoercion(d, c) == IF d = "enrollment" THEN ParsePct(c) ELSE ParseDecimal(c)

ValidOrgTypes == {<<"S", "c", "h", "o", "o", "l">>, <<"D", "i", "s", "t", "r", "i", "c", "t">>, <<"S", "t", "a", "t", "e">>}

\* mutant: the school test comes before the district test
NormalizeOrgType_schoolFirst(t) ==
    LET low == Strip(Lower(t)) IN
    IF low = <<"s", "t", "a", "t", "e">> THEN <<"S", "t", "a", "t", "e">>
    ELSE IF Contains(low, <<"s", "c", "h", "o", "o", "l">>) THEN <<"S", "c", "h", "o", "o", "l">>
    ELSE IF Contains(low, <<"d", "i", "s", "t", "r", "i", "c", "t">>) THEN <<"D", "i", "s", "t", "r", "i", "c", "t">>
    ELSE t

\* normalize_org_type()
NormalizeOrgType(t) ==
    LET low == Strip(Lower(t)) IN
    IF low = <<"s", "t", "a", "t", "e">> THEN <<"S", "t", "a", "t", "e">>
    ELSE IF Contains(low, <<"d", "i", "s", "t", "r", "i", "c", "t">>) THEN <<"D", "i", "s", "t", "r", "i", "c", "t">>
    ELSE IF Contains(low, <<"s", "c", "h", "o", "o", "l">>) THEN <<"S", "c", "h", "o", "o", "l">>
    ELSE t

\* everything a pipeline run changes; no coercion, validation or fold step does
pipelineVars == <<domain, dry_run, batch_size, env, source, records, pc, caller,
                  client_status, create_calls, loaderVars, exit_code, sinkVars>>

\* the characters the generated cell texts are made of
Chars == {"0", "1", "2", "9", ",", ".", "%", " ", "N", "x", "-"}

\* the cell texts named in the scripts' docstrings and in the design notes
SampleTexts == {<<"1", ",", "2", "3", "4">>,
    <<"7">>,
    <<"9", "3", ".", "2", "%">>,
    <<"1", "1", ".", "9">>,
    <<"1", ",", "2", "3", "4", ".", "5", "%">>,
    <<"9", "1", "5", ",", "9", "3", "2">>,
    <<"1", "3", ".", "9", "%">>,
    <<"0", "%">>,
    <<"n", "a", "n">>}

\* the raw cells the coercion functions are applied to
CoerceInputs ==
    {NaN, Absent}
    \cup {StrCell(t) : t \in SeqsUpTo(Chars, MaxStrLen) \cup SampleTexts}
    \cup {IntCell(v) : v \in {0, 7, 1234}}
    \cup {FloatCell(m) : m \in {500, 11900, 93200, 2020000}}

\* the words organization types are made of
OrgTokens == {<<"s", "t", "a", "t", "e">>,
    <<"S", "t", "a", "t", "e">>,
    <<"S", "T", "A", "T", "E">>,
    <<"d", "i", "s", "t", "r", "i", "c", "t">>,
    <<"D", "i", "s", "t", "r", "i", "c", "t">>,
    <<"s", "c", "h", "o", "o", "l">>,
    <<"S", "c", "h", "o", "o", "l">>,
    <<"S", "C", "H", "O", "O", "L">>,
    <<" ">>,
    <<"x">>,
    <<"P", "u", "b", "l", "i", "c", " ">>,
    <<"C", "h", "a", "r", "t", "e", "r", " ">>}

RECURSIVE TokenTexts(_)
TokenTexts(n) ==
    IF n = 0 THEN {<<>>}
    ELSE TokenTexts(n - 1) \cup {t \o w : t \in TokenTexts(n - 1), w \in OrgTokens}

\* the organization types named in normalize_org_type()'s docstring
SampleOrgTypes == {<<"P", "u", "b", "l", "i", "c", " ", "S", "c", "h", "o", "o", "l">>,
    <<"C", "h", "a", "r", "t", "e", "r", " ", "S", "c", "h", "o", "o", "l">>,
    <<"P", "u", "b", "l", "i", "c", " ", "S", "c", "h", "o", "o", "l", " ", "D", "i", "s", "t", "r", "i", "c", "t">>,
    <<"S", "t", "a", "t", "e">>,
    <<"O", "t", "h", "e", "r">>}

OrgTypeInputs == TokenTexts(MaxTokens) \cup SampleOrgTypes

ApplyParseInt ==
    /\ fpc = "call"
    /\ fn = "parse_int"
    /\ res' = ParseInt(arg)
    /\ fpc' = "done"
    /\ UNCHANGED <<fn, arg, pipelineVars, foldVars>>

ApplyParsePct ==
    /\ fpc = "call"
    /\ fn = "parse_pct"
    /\ res' = ParsePct(arg)
    /\ fpc' = "done"
    /\ UNCHANGED <<fn, arg, pipelineVars, foldVars>>

ApplyParseDecimal ==
    /\ fpc = "call"
    /\ fn = "parse_decimal"
    /\ res' = ParseDecimal(arg)
    /\ fpc' = "done"
    /\ UNCHANGED <<fn, arg, pipelineVars, foldVars>>

ApplyNormalizeOrgType ==
    /\ fpc = "call"
    /\ fn = "normalize_org_type"
    /\ res' = NormalizeOrgType(arg)
    /\ fpc' = "done"
    /\ UNCHANGED <<fn, arg, pipelineVars, foldVars>>

\* one call of a coercion function on one raw value
InitCoerce ==
    /\ PipelineIdle
    /\ FoldIdle
    /\ fn \in {"parse_int", "parse_pct", "parse_decimal", "normalize_org_type"}
    /\ arg \in (IF fn = "normalize_org_type" THEN OrgTypeInputs ELSE CoerceInputs)
    /\ res = <<>>
    /\ fpc = "call"

NextCoerce ==
    \/ ApplyParseInt
    \/ ApplyParsePct
    \/ ApplyParseDecimal
    \/ ApplyNormalizeOrgType

SpecCoerce == InitCoerce /\ [][NextCoerce]_vars

\* ======================================================= record validators
FactDomains == {"attendance", "enrollment", "mcas"}

\* the required identifier columns of each fact validator, in the order the
\* validator tests them, with the reason it logs for a blank one
KeyColumns == [d \in FactDomains |->
    CASE d = "attendance" -> <<
        [field |-> "attendance_period", col |-> "ATTEND_PERIOD", reason |-> "Missing ATTEND_PERIOD"],
        [field |-> "school_id", col |-> "ORG_CODE", reason |-> "Missing ORG_CODE (school_id)"],
        [field |-> "student_group", col |-> "STU_GRP", reason |-> "Missing STU_GRP (student_group)"]>>
      [] d = "enrollment" -> <<
        [field |-> "school_id", col |-> "ORG_CODE", reason |-> "Missing ORG_CODE (school_id)"]>>
      [] d = "mcas" -> <<
        [field |-> "school_id", col |-> "ORG_CODE", reason |-> "Missing ORG_CODE (school_id)"],
        [field |-> "test_grade", col |-> "TEST_GRADE", reason |-> "Missing TEST_GRADE"],
        [field |-> "subject_code", col |-> "SUBJECT_CODE", reason |-> "Missing SUBJECT_CODE"],
        [field |-> "student_group", col |-> "STU_GRP", reason |-> "Missing STU_GRP (student_group)"]>>]

\* the optional metric columns of each fact validator and the coercion applied
MetricColumns == [d \in FactDomains |->
    CASE d = "attendance" -> <<
        [field |-> "attendance_rate", col |-> "ATTEND_RATE", parser |-> "parse_decimal"],
        [field |-> "avg_days_absent", col |-> "CNT_AVG_ABS", parser |-> "parse_decimal"],
        [field |-> "absent_10plus_days_pct", col |-> "PCT_ABS_10_DAYS", parser |-> "parse_decimal"],
        [field |-> "chronic_absent_10_pct", col |-> "PCT_CHRON_ABS_10", parser |-> "parse_decimal"],
        [field |-> "chronic_absent_20_pct", col |-> "PCT_CHRON_ABS_20", parser |-> "parse_decimal"],
        [field |-> "unexcused_absent_10_pct", col |-> "PCT_UNEXC_10_DAYS", parser |-> "parse_decimal"]>>
      [] d = "enrollment" -> <<
        [field |-> "total_enrollment", col |-> "TOTAL_CNT", parser |-> "parse_int"],
        [field |-> "pk_count", col |-> "PK_CNT", parser |-> "parse_int"],
        [field |-> "k_count", col |-> "K_CNT", parser |-> "parse_int"],
        [field |-> "grade_1_count", col |-> "G1_CNT", parser |-> "parse_int"],
        [field |-> "grade_2_count", col |-> "G2_CNT", parser |-> "parse_int"],
        [field |-> "grade_3_count", col |-> "G3_CNT", parser |-> "parse_int"],
        [field |-> "grade_4_count", col |-> "G4_CNT", parser |-> "parse_int"],
        [field |-> "grade_5_count", col |-> "G5_CNT", parser |-> "parse_int"],
        [field |-> "grade_6_count", col |-> "G6_CNT", parser |-> "parse_int"],
        [field |-> "grade_7_count", col |-> "G7_CNT", parser |-> "parse_int"],
        [field |-> "grade_8_count", col |-> "G8_CNT", parser |-> "parse_int"],
        [field |-> "grade_9_count", col |-> "G9_CNT", parser |-> "parse_int"],
        [field |-> "grade_10_count", col |-> "G10_CNT", parser |-> "parse_int"],
        [field |-> "grade_11_count", col |-> "G11_CNT", parser |-> "parse_int"],
        [field |-> "grade_12_count", col |-> "G12_CNT", parser |-> "parse_int"],
        [field |-> "sp_count", col |-> "SP_CNT", parser |-> "parse_int"],
        [field |-> "american_indian_pct", col |-> "AIAN_PCT", parser |-> "parse_pct"],
        [field |-> "asian_pct", col |-> "AS_PCT", parser |-> "parse_pct"],
        [field |-> "black_african_american_pct", col |-> "BAA_PCT", parser |-> "parse_pct"],
        [field |-> "hispanic_latino_pct", col |-> "HL_PCT", parser |-> "parse_pct"],
        [field |-> "multi_race_non_hisp_pct", col |-> "MNHL_PCT", parser |-> "parse_pct"],
        [field |-> "native_hawaiian_pacific_pct", col |-> "NHPI_PCT", parser |-> "parse_pct"],
        [field |-> "white_pct", col |-> "WH_PCT", parser |-> "parse_pct"],
        [field |-> "female_pct", col |-> "FE_PCT", parser |-> "parse_pct"],
        [field |-> "male_pct", col |-> "MA_PCT", parser |-> "parse_pct"],
        [field |-> "non_binary_pct", col |-> "NB_PCT", parser |-> "parse_pct"],
        [field |-> "english_learner_count", col |-> "EL_CNT", parser |-> "parse_int"],
        [field |-> "english_learner_pct", col |-> "EL_PCT", parser |-> "parse_pct"],
        [field |-> "former_english_learner_count", col |-> "FLNE_CNT", parser |-> "parse_int"],
        [field |-> "former_english_learner_pct", col |-> "FLNE_PCT", parser |-> "parse_pct"],
        [field |-> "high_needs_count", col |-> "HN_CNT", parser |-> "parse_int"],
        [field |-> "high_needs_pct", col |-> "HN_PCT", parser |-> "parse_pct"],
        [field |-> "low_income_count", col |-> "LI_CNT", parser |-> "parse_int"],
        [field |-> "low_income_pct", col |-> "LI_PCT", parser |-> "parse_pct"],
        [field |-> "economically_disadvantaged_count", col |-> "ECD_CNT", parser |-> "parse_int"],
        [field |-> "economically_disadvantaged_pct", col |-> "ECD_PCT", parser |-> "parse_pct"],
        [field |-> "students_with_disabilities_count", col |-> "SWD_CNT", parser |-> "parse_int"],
        [field |-> "students_with_disabilities_pct", col |-> "SWD_PCT", parser |-> "parse_pct"]>>
      [] d = "mcas" -> <<
        [field |-> "meeting_exceeding_count", col |-> "M_PLUS_E_CNT", parser |-> "parse_int"],
        [field |-> "meeting_exceeding_pct", col |-> "M_PLUS_E_PCT", parser |-> "parse_decimal"],
        [field |-> "exceeding_count", col |-> "E_CNT", parser |-> "parse_int"],
        [field |-> "exceeding_pct", col |-> "E_PCT", parser |-> "parse_decimal"],
        [field |-> "meeting_count", col |-> "M_CNT", parser |-> "parse_int"],
        [field |-> "meeting_pct", col |-> "M_PCT", parser |-> "parse_decimal"],
        [field |-> "partially_meeting_count", col |-> "PM_CNT", parser |-> "parse_int"],
        [field |-> "partially_meeting_pct", col |-> "PM_PCT", parser |-> "parse_decimal"],
        [field |-> "not_meeting_count", col |-> "NM_CNT", parser |-> "parse_int"],
        [field |-> "not_meeting_pct", col |-> "NM_PCT", parser |-> "parse_decimal"],
        [field |-> "student_count", col |-> "STU_CNT", parser |-> "parse_int"],
        [field |-> "student_participation_pct", col |-> "STU_PART_PCT", parser |-> "parse_decimal"],
        [field |-> "avg_scaled_score", col |-> "AVG_SCALED_SCORE", parser |-> "parse_decimal"],
        [field |-> "avg_student_growth_percentile", col |-> "AVG_SGP", parser |-> "parse_decimal"],
        [field |-> "avg_sgp_included", col |-> "AVG_SGP_INCL", parser |-> "parse_decimal"],
        [field |-> "achievement_percentile", col |-> "ACH_PERCENTILE", parser |-> "parse_int"]>>]

KeyCols(d) == {e.col : e \in Range(KeyColumns[d])}
MetricCols(d) == {e.col : e \in Range(MetricColumns[d])}
FactColumns(d) == {"SY"} \cup KeyCols(d) \cup MetricCols(d)

\* str(row.get(col, '')).strip(): a column the file lacks gives ''
CellText(c) == IF c = Absent THEN <<>> ELSE Strip(PyStr(c))

\* `not text or text == 'nan'`
IsBlankText(t) == t = <<>> \/ t = <<"n", "a", "n">>

\* int(value) of a present cell: text is parsed, a float is truncated
PyIntOfCell(c) ==
    CASE c.k = "str"   -> PyIntOfStr(c.s)
      [] c.k = "int"   -> [ok |-> TRUE, n |-> c.n]
      [] c.k = "float" -> [ok |-> TRUE, n |-> c.n \div 1000]
      [] OTHER         -> [ok |-> FALSE, n |-> 0]

\* seed_attendance / seed_mcas: int(raw) if pd.notna(raw) else None, None on
\* ValueError or TypeError
YearByInt(c) ==
    IF IsNa(c) THEN Null
    ELSE LET r == PyIntOfCell(c) IN IF r.ok THEN IntVal(r.n) ELSE Null

\* the school year each validator derives from the SY cell
YearOf(d, c) == IF d = "enrollment" THEN ParseInt(c) ELSE YearByInt(c)

MissingYear == "Missing SY (school_year)"
InvalidYear == "Invalid school_year (must be 2000-2100)"

\* mutant: the upper end of the year range is not tested
YearErrors_noUpperBound(y) ==
    IF y = Null THEN <<MissingYear>>
    ELSE IF y.n < 2000 THEN <<InvalidYear>>
    ELSE <<>>

\* `if school_year is None: ... elif school_year < 2000 or school_year > 2100: ...`
YearErrors(y) ==
    IF y = Null THEN <<MissingYear>>
    ELSE IF y.n < 2000 \/ y.n > 2100 THEN <<InvalidYear>>
    ELSE <<>>

\* mutant: only surrounding whitespace makes a text blank, 'nan' does not
KeyError_ignoresNan(e, row) ==
    IF CellText(row[e.col]) = <<>> THEN <<e.reason>> ELSE <<>>

\* `if not <field> or <field> == 'nan': errors.append(...)`
KeyError(e, row) ==
    IF IsBlankText(CellText(row[e.col])) THEN <<e.reason>> ELSE <<>>

RECURSIVE KeyErrors(_, _)
KeyErrors(es, row) ==
    IF es = <<>> THEN <<>> ELSE KeyError(es[1], row) \o KeyErrors(Tail(es), row)

\* the coercion function named in the metric table
Coerce(parser, c) ==
    CASE parser = "parse_int"     -> ParseInt(c)
      [] parser = "parse_pct"     -> ParsePct(c)
      [] parser = "parse_decimal" -> ParseDecimal(c)

KeyEntry(d, f) == CHOOSE e \in Range(KeyColumns[d]) : e.field = f
MetricEntry(d, f) == CHOOSE e \in Range(MetricColumns[d]) : e.field = f

\* the record a fact validator builds from a row that passed
FactRecord(d, row) ==
    [f \in {"school_year"} \cup {e.field : e \in Range(KeyColumns[d])}
            \cup {e.field : e \in Range(MetricColumns[d])} |->
        IF f = "school_year" THEN YearOf(d, row["SY"])
        ELSE IF f \in {e.field : e \in Range(KeyColumns[d])}
             THEN CellText(row[KeyEntry(d, f).col])
        ELSE Coerce(MetricEntry(d, f).parser, row[MetricEntry(d, f).col])]

Rejected(errs) == [ok |-> FALSE, errors |-> errs, rec |-> <<>>]
Accepted(r) == [ok |-> TRUE, errors |-> <<>>, rec |-> r]

\* mutant: the validator gives up at the first violated rule
ValidateFact_firstErrorOnly(d, row) ==
    LET errs == YearErrors(YearOf(d, row["SY"])) \o KeyErrors(KeyColumns[d], row) IN
    IF errs # <<>> THEN Rejected(<<errs[1]>>) ELSE Accepted(FactRecord(d, row))

\* mutant: a metric that coerces to None rejects the row
ValidateFact_rejectsNullMetric(d, row) ==
    LET errs == YearErrors(YearOf(d, row["SY"])) \o KeyErrors(KeyColumns[d], row) IN
    IF errs # <<>> THEN Rejected(errs)
    ELSE IF \E e \in Range(MetricColumns[d]) : Coerce(e.parser, row[e.col]) = Null
         THEN Rejected(<<"Missing metric">>)
    ELSE Accepted(FactRecord(d, row))

\* validate_attendance_record(), validate_enrollment_record() and
\* validate_mcas_record(): collect every reason, return None if there is one,
\* else the record with its metrics coerced
ValidateFact(d, row) ==
    LET errs == YearErrors(YearOf(d, row["SY"])) \o KeyErrors(KeyColumns[d], row) IN
    IF errs # <<>> THEN Rejected(errs) ELSE Accepted(FactRecord(d, row))

\* the five identifying columns of the directory and the reason for a blank one
SchoolColumns == <<
    [field |-> "school_id", col |-> "ORG_CODE", reason |-> "Missing ORG_CODE (school_id)"],
    [field |-> "school_name", col |-> "ORG_NAME", reason |-> "Missing ORG_NAME (school_name)"],
    [field |-> "district_code", col |-> "DIST_CODE", reason |-> "Missing DIST_CODE (district_code)"],
    [field |-> "district_name", col |-> "DIST_NAME", reason |-> "Missing DIST_NAME (district_name)"]>>

SchoolCols == {"ORG_CODE", "ORG_NAME", "DIST_CODE", "DIST_NAME", "ORG_TYPE"}

MissingOrgType == "Missing ORG_TYPE (org_type)"
InvalidOrgType == "Invalid ORG_TYPE"

\* normalize_org_type(org_type_raw) if org_type_raw and org_type_raw != 'nan' else ''
OrgTypeOf(row) ==
    LET raw == CellText(row["ORG_TYPE"]) IN
    IF IsBlankText(raw) THEN <<>> ELSE NormalizeOrgType(raw)

\* mutant: the membership test against VALID_ORG_TYPES is missing
OrgTypeErrors_noMembership(t) ==
    IF IsBlankText(t) THEN <<MissingOrgType>> ELSE <<>>

\* `if not org_type or org_type == 'nan': ... elif org_type not in VALID_ORG_TYPES: ...`
OrgTypeErrors(t) ==
    IF IsBlankText(t) THEN <<MissingOrgType>>
    ELSE IF t \notin ValidOrgTypes THEN <<InvalidOrgType>>
    ELSE <<>>

SchoolRecord(row, sf) ==
    [school_id     |-> CellText(row["ORG_CODE"]),
     school_name   |-> CellText(row["ORG_NAME"]),
     district_code |-> CellText(row["DIST_CODE"]),
     district_name |-> CellText(row["DIST_NAME"]),
     org_type      |-> OrgTypeOf(row),
     source_file   |-> sf]

\* validate_school_record(row, source_file)
ValidateSchool(row, sf) ==
    LET errs == KeyErrors(SchoolColumns, row) \o OrgTypeErrors(OrgTypeOf(row)) IN
    IF errs # <<>> THEN Rejected(errs) ELSE Accepted(SchoolRecord(row, sf))

\* ----------------------------------------------- rows the validators are given
YearCells == {NaN, Absent, IntCell(1999), IntCell(2000), IntCell(2020), IntCell(2100),
              IntCell(2101), StrCell(<<"2", "0", "0", "0">>), StrCell(<<"2", "1", "0", "0">>), StrCell(<<"2", ",", "0", "2", "0">>),
              StrCell(<<"x">>), FloatCell(2020000), FloatCell(2020500)}

GoodKey == StrCell(<<" ", "A", "1", " ">>)

\* identifier cells combined freely over all identifier columns
BaseKeyCells == {NaN, StrCell(<<" ">>), StrCell(<<" ", "n", "a", "n", " ">>), GoodKey}

\* identifier cells tried in one column at a time
KeyCells == BaseKeyCells \cup {Absent, StrCell(<<>>), StrCell(<<"n", "a", "n">>), StrCell(<<"N", "a", "N">>),
                               StrCell(<<"A", "1">>), IntCell(35), FloatCell(35000)}

MetricCells == {NaN, Absent, StrCell(<<>>), StrCell(<<"N">>), StrCell(<<"x">>), StrCell(<<"7">>),
                StrCell(<<"1", ",", "2", "3", "4">>), StrCell(<<"9", "3", ".", "2", "%">>), IntCell(7), FloatCell(93200)}

OrgTypeCells == {NaN, Absent, StrCell(<<" ">>), StrCell(<<"n", "a", "n">>), StrCell(<<"S", "c", "h", "o", "o", "l">>),
                 StrCell(<<"s", "t", "a", "t", "e">>), StrCell(<<" ", "C", "h", "a", "r", "t", "e", "r", " ", "S", "c", "h", "o", "o", "l", " ">>),
                 StrCell(<<"P", "u", "b", "l", "i", "c", " ", "S", "c", "h", "o", "o", "l", " ", "D", "i", "s", "t", "r", "i", "c", "t">>), StrCell(<<"O", "t", "h", "e", "r">>), StrCell(<<"N", "a", "N">>)}

\* a row with every required field valid and every metric blank
GoodFactRow(d) ==
    [c \in FactColumns(d) |->
        IF c = "SY" THEN IntCell(2020) ELSE IF c \in KeyCols(d) THEN GoodKey ELSE NaN]

GoodSchoolRow ==
    [c \in SchoolCols |-> IF c = "ORG_TYPE" THEN StrCell(<<"S", "c", "h", "o", "o", "l">>) ELSE GoodKey]

\* every combination of year cell and basic identifier cells, metrics alike
FactRowsVarying(d) ==
    {[c \in FactColumns(d) |->
        IF c = "SY" THEN y ELSE IF c \in KeyCols(d) THEN ks[c] ELSE m] :
        y \in YearCells, ks \in [KeyCols(d) -> BaseKeyCells], m \in {NaN, StrCell(<<"7">>)}}

\* every identifier cell in one column, the other required fields good or missing
FactRowsProbing(d) ==
    {[c \in FactColumns(d) |->
        IF c = p THEN k ELSE IF c = "SY" THEN y ELSE IF c \in KeyCols(d) THEN o ELSE NaN] :
        p \in KeyCols(d), k \in KeyCells, y \in {IntCell(2020), NaN}, o \in {GoodKey, NaN}}

\* every pair of metric cells: one in a chosen column, one in all the others
FactRowsMetrics(d) ==
    {[c \in FactColumns(d) |->
        IF c = "SY" THEN y ELSE IF c \in KeyCols(d) THEN GoodKey
        ELSE IF c = p THEN a ELSE b] :
        p \in MetricCols(d), a \in MetricCells, b \in MetricCells, y \in {IntCell(2020), NaN}}

FactRows(d) == FactRowsVarying(d) \cup FactRowsProbing(d) \cup FactRowsMetrics(d)

SchoolRows ==
    {[c \in SchoolCols |-> IF c = "ORG_TYPE" THEN t ELSE ks[c]] :
        ks \in [SchoolCols \ {"ORG_TYPE"} -> BaseKeyCells], t \in OrgTypeCells}
    \cup {[c \in SchoolCols |-> IF c = p THEN k ELSE IF c = "ORG_TYPE" THEN t ELSE o] :
        p \in SchoolCols \ {"ORG_TYPE"}, k \in KeyCells, t \in {StrCell(<<"S", "c", "h", "o", "o", "l">>), NaN},
        o \in {GoodKey, NaN}}

ValidatorDomain ==
    [f \in {"validate_attendance_record", "validate_enrollment_record", "validate_mcas_record"} |->
        CASE f = "validate_attendance_record" -> "attendance"
          [] f = "validate_enrollment_record" -> "enrollment"
          [] f = "validate_mcas_record"       -> "mcas"]

ApplyValidateAttendance ==
    /\ fpc = "call"
    /\ fn = "validate_attendance_record"
    /\ res' = ValidateFact("attendance", arg)
    /\ fpc' = "done"
    /\ UNCHANGED <<fn, arg, pipelineVars, foldVars>>

ApplyValidateEnrollment ==
    /\ fpc = "call"
    /\ fn = "validate_enrollment_record"
    /\ res' = ValidateFact("enrollment", arg)
    /\ fpc' = "done"
    /\ UNCHANGED <<fn, arg, pipelineVars, foldVars>>

ApplyValidateMcas ==
    /\ fpc = "call"
    /\ fn = "validate_mcas_record"
    /\ res' = ValidateFact("mcas", arg)
    /\ fpc' = "done"
    /\ UNCHANGED <<fn, arg, pipelineVars, foldVars>>

ApplyValidateSchool ==
    /\ fpc = "call"
    /\ fn = "validate_school_record"
    /\ res' = ValidateSchool(arg, "source.csv")
    /\ fpc' = "done"
    /\ UNCHANGED <<fn, arg, pipelineVars, foldVars>>

\* one call of a record validator on one raw row
InitValidate ==
    /\ PipelineIdle
    /\ FoldIdle
    /\ fn \in DOMAIN ValidatorDomain \cup {"validate_school_record"}
    /\ arg \in (IF fn = "validate_school_record" THEN SchoolRows ELSE FactRows(ValidatorDomain[fn]))
    /\ res = <<>>
    /\ fpc = "call"

NextValidate ==
    \/ ApplyValidateAttendance
    \/ ApplyValidateEnrollment
    \/ ApplyValidateMcas
    \/ ApplyValidateSchool

SpecValidate == InitValidate /\ [][NextValidate]_vars

\* ========================================================= directory fold
\* most raw rows read from all the directory sources together
MaxRows == 3

\* csv_path.name of the entries of CSV_SOURCES, in list order
CsvSources == <<
    "Enrollment__Grade,_Race_Ethnicity,_Gender,_and_Selected_Populations_20251204.csv",
    "MCAS_Achievement_Results_20251204.csv",
    "Student_Attendance_20251204.csv",
    "Class_Size_by_Gender,_Race_Ethnicity,_and_Selected_Populations_20251204.csv",
    "Student_Attrition_20251204.csv",
    "Student_Discipline_20251204.csv",
    "Student_Mobility_Rate_20251204.csv",
    "High_School_Graduation_Rates_20251204.csv">>

\* one directory row: the five identifying columns of a source row
DirectoryRow(id, name, type) ==
    [c \in SchoolCols |->
        CASE c = "ORG_CODE"  -> StrCell(id)
          [] c = "ORG_NAME"  -> StrCell(name)
          [] c = "DIST_CODE" -> StrCell(<<"0", "0", "3", "5">>)
          [] c = "DIST_NAME" -> StrCell(<<"B", "o", "s", "t", "o", "n">>)
          [] c = "ORG_TYPE"  -> StrCell(type)]

\* the rows the sources are made of: one school under two names and types,
\* another school, and a row of the first school that the validator rejects
DirectoryRows == {
    DirectoryRow(<<"1", "2", "3", "4">>, <<"A", "d", "a", "m", "s">>, <<"S", "c", "h", "o", "o", "l">>),
    DirectoryRow(<<"1", "2", "3", "4">>, <<"B", "a", "k", "e", "r", " ">>, <<"P", "u", "b", "l", "i", "c", " ", "S", "c", "h", "o", "o", "l", " ", "D", "i", "s", "t", "r", "i", "c", "t">>),
    DirectoryRow(<<"5", "6", "7", "8">>, <<"A", "d", "a", "m", "s">>, <<"S", "c", "h", "o", "o", "l">>),
    DirectoryRow(<<"1", "2", "3", "4">>, <<"C", "l", "a", "r", "k">>, <<"O", "t", "h", "e", "r">>)}

\* df[school_cols].drop_duplicates(): the first of equal rows is kept
RECURSIVE DropDuplicates(_)
DropDuplicates(rows) ==
    IF rows = <<>> THEN <<>>
    ELSE LET front == DropDuplicates(SubSeq(rows, 1, Len(rows) - 1))
             last  == rows[Len(rows)]
         IN  IF last \in Range(front) THEN front ELSE Append(front, last)

\* the validation loop of extract_schools_from_csv(): valid records in row order
RECURSIVE ValidRecords(_, _)
ValidRecords(rows, sf) ==
    IF rows = <<>> THEN <<>>
    ELSE LET v == ValidateSchool(rows[1], sf) IN
         (IF v.ok THEN <<v.rec>> ELSE <<>>) \o ValidRecords(Tail(rows), sf)

\* extract_schools_from_csv(): nothing from a file that cannot be read or
\* lacks a required column, else the valid records of its distinct rows
ExtractSchools(status, rows, sf) ==
    IF status = "ok" THEN ValidRecords(DropDuplicates(rows), sf) ELSE <<>>

\* mutant: a school id already in the directory keeps its first record
Store_keepsFirst(m, rec) ==
    [k \in DOMAIN m \cup {rec.school_id} |-> IF k \in DOMAIN m THEN m[k] ELSE rec]

\* all_schools[school.school_id] = school
Store(m, rec) ==
    [k \in DOMAIN m \cup {rec.school_id} |-> IF k = rec.school_id THEN rec ELSE m[k]]

\* the raw rows of one source, as entries of the read log
Logged(k, rows) == [n \in 1..Len(rows) |-> [src |-> k, row |-> rows[n]]]

\* `if not csv_path.exists(): continue`
CollectSkipMissing ==
    /\ fold_pc = "loop"
    /\ src_idx < Len(CsvSources)
    /\ src_idx' = src_idx + 1
    /\ src_status' = "missing"
    /\ UNCHANGED <<pending, all_schools, duplicate_count, history, fold_pc>>
    /\ UNCHANGED <<pipelineVars, pureVars>>

\* mutant: a source that cannot be used ends the loop over the sources
CollectExtract_stopsOnError ==
    /\ fold_pc = "loop"
    /\ src_idx < Len(CsvSources)
    /\ \E status \in {"ok", "unreadable", "missing_columns"} :
       \E n \in 0..(MaxRows - Len(history)) :
       \E rows \in [1..n -> DirectoryRows] :
         /\ status # "ok" => n = 0
         /\ src_status' = status
         /\ pending' = ExtractSchools(status, rows, CsvSources[src_idx + 1])
         /\ history' = history \o Logged(src_idx + 1, rows)
         /\ fold_pc' = IF status = "ok" THEN "fold" ELSE "done"
    /\ src_idx' = src_idx + 1
    /\ UNCHANGED <<all_schools, duplicate_count>>
    /\ UNCHANGED <<pipelineVars, pureVars>>

\* schools = extract_schools_from_csv(csv_path) for the next source that exists
CollectExtract ==
    /\ fold_pc = "loop"
    /\ src_idx < Len(CsvSources)
    /\ \E status \in {"ok", "unreadable", "missing_columns"} :
       \E n \in 0..(MaxRows - Len(history)) :
       \E rows \in [1..n -> DirectoryRows] :
         /\ status # "ok" => n = 0
         /\ src_status' = status
         /\ pending' = ExtractSchools(status, rows, CsvSources[src_idx + 1])
         /\ history' = history \o Logged(src_idx + 1, rows)
    /\ src_idx' = src_idx + 1
    /\ fold_pc' = "fold"
    /\ UNCHANGED <<all_schools, duplicate_count>>
    /\ UNCHANGED <<pipelineVars, pureVars>>

\* mutant: an overwritten school id is not counted
FoldRecord_neverCounts ==
    /\ fold_pc = "fold"
    /\ pending # <<>>
    /\ duplicate_count' = duplicate_count
    /\ all_schools' = Store(all_schools, Head(pending))
    /\ pending' = Tail(pending)
    /\ UNCHANGED <<src_idx, src_status, history, fold_pc>>
    /\ UNCHANGED <<pipelineVars, pureVars>>

\* one iteration of `for school in schools`
FoldRecord ==
    /\ fold_pc = "fold"
    /\ pending # <<>>
    /\ duplicate_count' = IF Head(pending).school_id \in DOMAIN all_schools
                          THEN duplicate_count + 1 ELSE duplicate_count
    /\ all_schools' = Store(all_schools, Head(pending))
    /\ pending' = Tail(pending)
    /\ UNCHANGED <<src_idx, src_status, history, fold_pc>>
    /\ UNCHANGED <<pipelineVars, pureVars>>

\* the records of the source are used up: back to the loop over the sources
FoldSourceDone ==
    /\ fold_pc = "fold"
    /\ pending = <<>>
    /\ fold_pc' = "loop"
    /\ UNCHANGED <<src_idx, src_status, pending, all_schools, duplicate_count, history>>
    /\ UNCHANGED <<pipelineVars, pureVars>>

\* `return all_schools` after the last source
CollectReturn ==
    /\ fold_pc = "loop"
    /\ src_idx = Len(CsvSources)
    /\ fold_pc' = "done"
    /\ UNCHANGED <<src_idx, src_status, pending, all_schools, duplicate_count, history>>
    /\ UNCHANGED <<pipelineVars, pureVars>>

\* Step 1 of main() in seed_schools.py, after collect_all_schools() returned:
\* `if not schools: return 1`
MainCollected ==
    /\ fold_pc = "done"
    /\ pc = "idle"
    /\ IF NothingToLoad(all_schools)
       THEN /\ exit_code' = 1
            /\ pc' = "main_done"
       ELSE /\ pc' = "main_extracted"
            /\ UNCHANGED exit_code
    /\ fold_pc' = "returned"
    /\ UNCHANGED <<domain, dry_run, batch_size, env, source, records, caller,
                   client_status, create_calls, loaderVars, sinkVars>>
    /\ UNCHANGED <<pureVars, src_idx, src_status, pending, all_schools,
                   duplicate_count, history>>

\* collect_all_schools() is entered: all_schools = {}, duplicate_count = 0
InitFold ==
    /\ PipelineIdle
    /\ PureIdle
    /\ src_idx = 0
    /\ src_status = "none"
    /\ pending = <<>>
    /\ all_schools = <<>>
    /\ duplicate_count = 0
    /\ history = <<>>
    /\ fold_pc = "loop"

NextFold ==
    \/ CollectSkipMissing
    \/ CollectExtract
    \/ FoldRecord
    \/ FoldSourceDone
    \/ CollectReturn
    \/ MainCollected

SpecFold == InitFold /\ [][NextFold]_vars

\* ============================================================ extractors
\* most data rows in a source file that is read row by row
MaxExtractRows == 3

\* extract_*_records() of the fact scripts, extract_schools_from_csv()
ExtractorOf == [d \in Domains |->
    CASE d = "attendance" -> "extract_attendance_records"
      [] d = "enrollment" -> "extract_enrollment_records"
      [] d = "mcas"       -> "extract_mcas_records"
      [] d = "schools"    -> "extract_schools_from_csv"]

\* What a source file can be: absent when looked up, gone between the lookup
\* and the read (FileNotFoundError), without any column (EmptyDataError),
\* unparseable (any other exception), parsed but lacking a required column
\* (tested by the directory extractor only), or parsed into zero or more rows.
\* The directory extractor is only called for a file its caller found.
SourceKinds(d) ==
    IF d = "schools"
    THEN {"vanished", "no_columns", "malformed", "missing_columns", "readable"}
    ELSE {"absent", "vanished", "no_columns", "malformed", "readable"}

\* the message logged for a source that gives no rows ("" when none is logged)
ReasonOf(kind) ==
    CASE kind = "absent"          -> "CSV file not found"
      [] kind = "vanished"        -> "File not found"
      [] kind = "no_columns"      -> "Empty CSV file"
      [] kind = "malformed"       -> "Error reading CSV"
      [] kind = "missing_columns" -> "Missing required columns"
      [] kind = "readable"        -> ""

\* a fact row: the good row with its school id, year and first metric replaced
FactRow(d, id, year, m) ==
    [GoodFactRow(d) EXCEPT !["ORG_CODE"] = id, !["SY"] = year,
                           ![MetricColumns[d][1].col] = m]

\* the rows the source files are made of: a school, the same school and year
\* again with another metric value, another school, and rows with a blank
\* school id and with a year out of range
ExtractRows(d) ==
    IF d = "schools" THEN DirectoryRows
    ELSE {FactRow(d, StrCell(<<"A", "1">>), IntCell(2020), StrCell(<<"7">>)),
          FactRow(d, StrCell(<<"A", "1">>), IntCell(2020), StrCell(<<"9">>)),
          FactRow(d, StrCell(<<"B", "2">>), IntCell(2020), StrCell(<<"7">>)),
          FactRow(d, StrCell(<<" ", "n", "a", "n", " ">>), IntCell(2020), StrCell(<<"7">>)),
          FactRow(d, StrCell(<<"A", "1">>), IntCell(2101), StrCell(<<"7">>))}

\* the validator each extractor applies to a row
ValidateRow(d, row) ==
    IF d = "schools" THEN ValidateSchool(row, "source.csv") ELSE ValidateFact(d, row)

\* the rows the validation loop iterates over: df.iterrows() in the fact
\* scripts, df[school_cols].drop_duplicates().iterrows() in the directory
RowsToValidate(d, rows) == IF d = "schools" THEN DropDuplicates(rows) ELSE rows

\* mutant: a rejected row is not counted
Tally_dropsInvalid(r, v) ==
    [valid   |-> IF v.ok THEN Append(r.valid, v.rec) ELSE r.valid,
     invalid |-> r.invalid,
     reason  |-> r.reason,
     todo    |-> Tail(r.todo)]

\* `if record: valid_records.append(record) else: invalid_count += 1`
Tally(r, v) ==
    [valid   |-> IF v.ok THEN Append(r.valid, v.rec) ELSE r.valid,
     invalid |-> IF v.ok THEN r.invalid ELSE r.invalid + 1,
     reason  |-> r.reason,
     todo    |-> Tail(r.todo)]

\* the extractor is entered: a source that cannot be read returns [] with its
\* message, a readable one enters the validation loop
ExtractOpen ==
    /\ fpc = "call"
    /\ fn = ExtractorOf[domain]
    /\ res' = [valid |-> <<>>, invalid |-> 0, reason |-> ReasonOf(arg.kind),
               todo |-> IF arg.kind = "readable" THEN RowsToValidate(domain, arg.rows) ELSE <<>>]
    /\ fpc' = IF arg.kind = "readable" THEN "loop" ELSE "done"
    /\ UNCHANGED <<fn, arg, pipelineVars, foldVars>>

\* one iteration of the validation loop
ExtractRow ==
    /\ fpc = "loop"
    /\ res.todo # <<>>
    /\ res' = Tally(res, ValidateRow(domain, Head(res.todo)))
    /\ UNCHANGED <<fn, arg, fpc, pipelineVars, foldVars>>

\* `return valid_records`
ExtractReturn ==
    /\ fpc = "loop"
    /\ res.todo = <<>>
    /\ fpc' = "done"
    /\ UNCHANGED <<fn, arg, res, pipelineVars, foldVars>>

\* mutant: main() hands over the records validated so far while the
\* validation loop is still running
MainExtracted_beforeLoopEnds ==
    /\ pc = "main_start"
    /\ fpc \in {"loop", "done"}
    /\ domain # "schools"
    /\ records' = res.valid
    /\ source' = arg.kind
    /\ IF NothingToLoad(res.valid)
       THEN /\ exit_code' = 1
            /\ pc' = "main_done"
       ELSE /\ pc' = "main_extracted"
            /\ UNCHANGED exit_code
    /\ UNCHANGED <<inputs, client_status, create_calls, loaderVars>>

\* Step 1 of main() in the fact scripts, after the extractor returned:
\* `if not records: return 1`
MainExtracted ==
    /\ pc = "main_start"
    /\ fpc = "done"
    /\ domain # "schools"
    /\ records' = res.valid
    /\ source' = arg.kind
    /\ IF NothingToLoad(res.valid)
       THEN /\ exit_code' = 1
            /\ pc' = "main_done"
       ELSE /\ pc' = "main_extracted"
            /\ UNCHANGED exit_code
    /\ UNCHANGED <<inputs, client_status, create_calls, loaderVars>>

\* a script is started on one source file (the directory extractor is looked
\* at on its own, its caller being collect_all_schools())
InitExtract ==
    /\ domain \in Domains
    /\ dry_run \in BOOLEAN
    /\ batch_size \in 1..MaxBatch
    /\ env = [url |-> TRUE, key |-> TRUE, raises |-> FALSE]
    /\ source = "unread"
    /\ records = <<>>
    /\ pc = (IF domain = "schools" THEN "idle" ELSE "main_start")
    /\ caller = "main"
    /\ client_status = "not_requested"
    /\ create_calls = 0
    /\ LoaderZero
    /\ SinkIdle
    /\ exit_code = -1
    /\ FoldIdle
    /\ fn = ExtractorOf[domain]
    /\ \E kind \in SourceKinds(domain) :
       \E rows \in SeqsUpTo(ExtractRows(domain), MaxExtractRows) :
        /\ kind # "readable" => rows = <<>>
        /\ arg = [kind |-> kind, rows |-> rows]
    /\ res = <<>>
    /\ fpc = "call"

NextExtract ==
    \/ ExtractOpen
    \/ ExtractRow
    \/ ExtractReturn
    \/ MainExtracted
    \/ MainGetClient
    \/ LoaderDryRun
    \/ LoaderStart
    \/ LoaderBatch
    \/ LoaderIndividual
    \/ LoaderFinish
    \/ MainExit

SpecExtract == InitExtract /\ [][NextExtract]_vars

\* ====================================================== the shared sink
\* most records in the source two loads share
MaxSinkLen == 2

\* The sink is the table the scripts upsert into; its own code is not part
\* of the scripts.  It holds rows, here a natural key and the other fields,
\* as a bag: a function from the rows present to their number of copies.
SinkRow(k, v) == [key |-> k, val |-> v]

SinkRows(ks, v) == [r \in {SinkRow(k, v) : k \in ks} |-> 1]

\* insert-or-overwrite by key: the rows with the key of the incoming row are
\* replaced by it
OverwriteByKey(bag, row) ==
    [r \in {x \in DOMAIN bag : x.key # row.key} \cup {row} |->
        IF r = row THEN 1 ELSE bag[r]]

\* a row added without looking at the rows already there
InsertRow(bag, row) ==
    [r \in DOMAIN bag \cup {row} |->
        IF r # row THEN bag[r] ELSE IF r \in DOMAIN bag THEN bag[r] + 1 ELSE 1]

\* How a successful upsert can resolve conflicts.  With the natural key as
\* conflict target the sink overwrites by that key.  Without a target the
\* sink falls back on the table's primary key: that is the natural key for
\* some tables, and for the others the row dicts carry no primary key, so
\* nothing conflicts and the row is added.
Resolutions(target) ==
    IF target = NoConflictTarget THEN {"by_natural_key", "insert"} ELSE {"by_natural_key"}

\* the sink after a successful upsert(rows, on_conflict), rows taken in order
RECURSIVE SinkUpsert(_, _, _)
SinkUpsert(bag, rows, how) ==
    IF rows = <<>> THEN bag
    ELSE SinkUpsert(IF how = "insert" THEN InsertRow(bag, rows[1])
                    ELSE OverwriteByKey(bag, rows[1]),
                    Tail(rows), how)

\* positions off+1 .. off+n of the record list
Positions(off, n) == (off + 1)..(off + n)

\* one iteration of the batch loop of load r, up to the outcome of its upsert
RunBatch(r) ==
    /\ runs[r].pc = "batch_loop"
    /\ ~LoopExhausted(runs[r].i, Len(records))
    /\ LET batch == BatchOf(records, runs[r].i, batch_size) IN
       \E ok \in BOOLEAN : \E how \in Resolutions(OnConflict[domain]) :
        IF ok
        THEN /\ sink' = SinkUpsert(sink, batch, how)
             /\ runs' = [runs EXCEPT ![r] = [pc |-> "batch_loop", i |-> runs[r].i + batch_size,
                            j |-> 0, written |-> runs[r].written \cup Positions(runs[r].i, Len(batch))]]
        ELSE /\ sink' = sink
             /\ runs' = [runs EXCEPT ![r] = [pc |-> "individual", i |-> runs[r].i,
                            j |-> 1, written |-> runs[r].written]]
    /\ UNCHANGED <<domain, dry_run, batch_size, env, source, records, pc, caller,
                   client_status, create_calls, loaderVars, exit_code, pureVars, foldVars>>

\* one iteration of the per-record retry loop of load r
RunIndividual(r) ==
    /\ runs[r].pc = "individual"
    /\ LET batch == BatchOf(records, runs[r].i, batch_size)
           jj    == runs[r].j
           last  == FallbackExhausted(jj, batch)
       IN
       \E ok \in BOOLEAN : \E how \in Resolutions(NoConflictTarget) :
        /\ sink' = IF ok THEN SinkUpsert(sink, <<batch[jj]>>, how) ELSE sink
        /\ runs' = [runs EXCEPT ![r] =
                      [pc |-> IF last THEN "batch_loop" ELSE "individual",
                       i  |-> IF last THEN runs[r].i + batch_size ELSE runs[r].i,
                       j  |-> IF last THEN 0 ELSE jj + 1,
                       written |-> IF ok THEN runs[r].written \cup {runs[r].i + jj}
                                   ELSE runs[r].written]]
    /\ UNCHANGED <<domain, dry_run, batch_size, env, source, records, pc, caller,
                   client_status, create_calls, loaderVars, exit_code, pureVars, foldVars>>

\* the batch loop of load r is exhausted: the loader returns
RunFinish(r) ==
    /\ runs[r].pc = "batch_loop"
    /\ LoopExhausted(runs[r].i, Len(records))
    /\ runs' = [runs EXCEPT ![r].pc = "returned"]
    /\ UNCHANGED <<sink, domain, dry_run, batch_size, env, source, records, pc, caller,
                   client_status, create_calls, loaderVars, exit_code, pureVars, foldVars>>

\* the first load is cut off between two sink calls (the process is killed)
RunCutOff ==
    /\ runs[1].pc \in {"batch_loop", "individual"}
    /\ runs' = [runs EXCEPT ![1].pc = "cut"]
    /\ UNCHANGED <<sink, domain, dry_run, batch_size, env, source, records, pc, caller,
                   client_status, create_calls, loaderVars, exit_code, pureVars, foldVars>>

\* the script is run again on the same source once the first load has ended
RunAgain ==
    /\ runs[1].pc \in {"cut", "returned"}
    /\ runs[2].pc = "waiting"
    /\ runs' = [runs EXCEPT ![2].pc = "batch_loop"]
    /\ UNCHANGED <<sink, domain, dry_run, batch_size, env, source, records, pc, caller,
                   client_status, create_calls, loaderVars, exit_code, pureVars, foldVars>>

RunEntry(at) == [pc |-> at, i |-> 0, j |-> 0, written |-> {}]

\* Two live loads of one source with distinct natural keys; the sink may
\* already hold older rows for some of the keys.
SinkInit(second) ==
    /\ domain \in Domains
    /\ dry_run = FALSE
    /\ batch_size \in 1..MaxBatch
    /\ env = [url |-> TRUE, key |-> TRUE, raises |-> FALSE]
    /\ source = "ok"
    /\ \E n \in 1..MaxSinkLen : records = [k \in 1..n |-> SinkRow(k, "new")]
    /\ pc = "idle"
    /\ caller = "none"
    /\ client_status = "connected"
    /\ create_calls = 0
    /\ LoaderZero
    /\ exit_code = -1
    /\ PureIdle
    /\ FoldIdle
    /\ runs = <<RunEntry("batch_loop"), RunEntry(second)>>
    /\ \E old \in SUBSET (1..Len(records)) : sink = SinkRows(old, "old")

InitRerun == SinkInit("waiting")

NextRerun ==
    \/ \E r \in 1..2 : RunBatch(r)
    \/ \E r \in 1..2 : RunIndividual(r)
    \/ \E r \in 1..2 : RunFinish(r)
    \/ RunCutOff
    \/ RunAgain

\* a load, cut off or not, followed by a second load of the same source
SpecRerun == InitRerun /\ [][NextRerun]_vars

InitConcurrent == SinkInit("batch_loop")

NextConcurrent ==
    \/ \E r \in 1..2 : RunBatch(r)
    \/ \E r \in 1..2 : RunIndividual(r)
    \/ \E r \in 1..2 : RunFinish(r)

\* two loads of the same source whose sink calls interleave
SpecConcurrent == InitConcurrent /\ [][NextConcurrent]_vars

\* ------------------------------------------------------------ properties
IsBatch(c) == c.kind = "batch"
BatchCalls == SelectSeq(calls, IsBatch)

RECURSIVE ConcatRows(_)
ConcatRows(cs) == IF cs = <<>> THEN <<>> ELSE cs[1].rows \o ConcatRows(Tail(cs))

RECURSIVE RowCount(_)
RowCount(cs) == IF cs = <<>> THEN 0 ELSE Len(cs[1].rows) + RowCount(Tail(cs))

OkBatch(c) == c.kind = "batch" /\ c.ok
OkSingle(c) == c.kind = "single" /\ c.ok
FailedSingle(c) == c.kind = "single" /\ ~c.ok

\* C1: a live load of N records with batch size B issues exactly ceil(N/B)
\* batch upsert calls; every batch but the last holds B records, the last
\* holds the remainder, and the batches concatenated in issue order are the
\* input record sequence.
C1_BatchPartition ==
    (pc = "loader_return" /\ ~dry_run) =>
        LET bc == BatchCalls
            n  == Len(bc)
            N  == Len(records)
            B  == batch_size
        IN  /\ n * B >= N
            /\ (n - 1) * B < N \/ (n = 0 /\ N = 0)
            /\ \A k \in 1..n : Len(bc[k].rows) = IF k < n THEN B ELSE N - (n - 1) * B
            /\ ConcatRows(bc) = records

\* witness of C1: a finished live load of 5 records in batches of 2, 2 and 1
C1_Witness ==
    /\ pc = "loader_return"
    /\ ~dry_run
    /\ Len(records) = 4
    /\ batch_size = 3
    /\ Len(BatchCalls) = 2
    /\ Len(BatchCalls[2].rows) = 1

\* C2: a failed batch call is followed by exactly one individual upsert call
\* per record of that batch, in batch order, and by no other individual call;
\* a successful batch call is followed by no individual call.
C2_FallbackPerFailedBatch ==
    (pc = "loader_return" /\ ~dry_run) =>
        /\ calls # <<>> => calls[1].kind = "batch"
        /\ \A p \in 1..Len(calls) :
            calls[p].kind = "batch" =>
                LET m   == Len(calls[p].rows)
                    nxt == IF calls[p].ok THEN p + 1 ELSE p + m + 1
                IN  /\ ~calls[p].ok =>
                        /\ p + m <= Len(calls)
                        /\ \A q \in 1..m :
                            /\ calls[p + q].kind = "single"
                            /\ calls[p + q].rows = <<calls[p].rows[q]>>
                            /\ calls[p + q].at = calls[p].at + q - 1
                    /\ nxt <= Len(calls) => calls[nxt].kind = "batch"

\* witness of C2: a finished load with a failed batch of at least two records
\* and a successful batch
C2_Witness ==
    /\ pc = "loader_return"
    /\ ~dry_run
    /\ \E p, q \in 1..Len(calls) :
        /\ calls[p].kind = "batch" /\ ~calls[p].ok /\ Len(calls[p].rows) >= 2
        /\ calls[q].kind = "batch" /\ calls[q].ok

\* every record position was attempted by a batch call, and by an individual
\* call when its batch call failed
AllAttempted ==
    \A k \in 0..(Len(records) - 1) :
        \E p \in 1..Len(calls) :
            /\ calls[p].kind = "batch"
            /\ calls[p].at <= k
            /\ k < calls[p].at + Len(calls[p].rows)
            /\ ~calls[p].ok =>
                \E q \in 1..Len(calls) :
                    /\ q > p
                    /\ calls[q].kind = "single"
                    /\ calls[q].at = k
                    /\ calls[q].rows = <<records[k + 1]>>

\* C3: a live load always terminates by returning a success/failure value,
\* having attempted every batch and every record, whichever sink calls failed.
C3_LiveLoadCompletes ==
    (pc = "loader_entry" /\ ~dry_run) ~>
        (pc = "loader_return" /\ success \in BOOLEAN /\ AllAttempted)

\* witness of C3: a finished load in which an individual retry failed and a
\* later batch was still attempted
C3_Witness ==
    /\ pc = "loader_return"
    /\ ~dry_run
    /\ AllAttempted
    /\ \E p, q \in 1..Len(calls) :
        /\ p < q
        /\ calls[p].kind = "single" /\ ~calls[p].ok
        /\ calls[q].kind = "batch"

\* C4: at the end of a live load the error count is the number of records
\* whose individual retry failed, the success count is the number of records
\* written by a successful batch call or a successful individual retry, and
\* success count + error count = number of input records.
C4_TallyMatchesOutcomes ==
    (pc = "loader_return" /\ ~dry_run) =>
        /\ total_errors = Len(SelectSeq(calls, FailedSingle))
        /\ total_inserted = RowCount(SelectSeq(calls, OkBatch)) + Len(SelectSeq(calls, OkSingle))
        /\ total_inserted + total_errors = Len(records)

\* the natural key of each domain, as the data model states it
NaturalKey == [d \in Domains |->
    CASE d = "attendance" -> {"school_id", "school_year", "attendance_period", "student_group"}
      [] d = "enrollment" -> {"school_id", "school_year"}
      [] d = "mcas"       -> {"school_id", "school_year", "test_grade", "subject_code", "student_group"}
      [] d = "schools"    -> {"school_id"}]

\* C5: every upsert call a domain's loader issues, batch call and per-record
\* fallback call alike, names the domain's natural-key tuple as its conflict
\* target.
C5_EveryCallNamesNaturalKey ==
    \A p \in 1..Len(calls) : Range(calls[p].on_conflict) = NaturalKey[domain]

\* C6: with the dry-run flag set the loader issues no upsert call, leaves the
\* sink unchanged, previews at most the first five records in input order and
\* returns success, for every record sequence and batch size.
C6_DryRunLoader ==
    dry_run =>
        /\ calls = <<>>
        /\ table = {}
        /\ pc \in {"loader_entry", "loader_return"}
        /\ pc = "loader_return" =>
            /\ success = TRUE
            /\ Len(preview) <= 5
            /\ Len(preview) <= Len(records)
            /\ preview = SubSeq(records, 1, Len(preview))

\* witness of C6: a dry-run load of six records has returned with five previewed
C6_Witness ==
    /\ dry_run
    /\ pc = "loader_return"
    /\ Len(records) = 6
    /\ Len(preview) = 5

\* C7 as stated: a --dry-run run whose extraction yields at least one record
\* performs zero sink calls and exits with status 0 whatever the state or
\* configuration of the sink.
C7_DryRunExitsZeroUnconditionally ==
    (pc = "main_done" /\ dry_run /\ records # <<>>) =>
        /\ calls = <<>>
        /\ exit_code = 0

\* C7 amended: a --dry-run run whose extraction yields at least one record
\* performs zero upsert calls and leaves the sink unchanged whatever the
\* sink's configuration, and exits with status 0 exactly when the sink client
\* was obtained (status 1 otherwise).
C7_DryRunNoCallsExitByClient ==
    (dry_run /\ records # <<>>) =>
        /\ calls = <<>>
        /\ table = {}
        /\ pc = "main_done" =>
            /\ exit_code = (IF env.url /\ env.key /\ ~env.raises THEN 0 ELSE 1)

\* witness of C7: a dry run over extracted records has exited with status 0
C7_Witness ==
    /\ pc = "main_done"
    /\ dry_run
    /\ records # <<>>
    /\ preview # <<>>
    /\ exit_code = 0

\* C8: when extraction yields zero valid records the run ends with status 1
\* without creating a sink client and without any upsert call, the sink
\* being unchanged.
C8_EmptyExtractionFails ==
    (source # "unread" /\ records = <<>>) =>
        /\ pc = "main_done"
        /\ exit_code = 1
        /\ client_status = "not_requested"
        /\ create_calls = 0
        /\ calls = <<>>
        /\ table = {}

\* witness of C8: a run whose readable source had every row rejected has ended
C8_Witness ==
    /\ pc = "main_done"
    /\ source = "ok"
    /\ records = <<>>
    /\ exit_code = 1

\* C9: when the sink client cannot be configured or created (URL unset,
\* credential unset, or construction raising) no upsert call is ever issued
\* and the run ends with status 1.
C9_NoClientFails ==
    (~env.url \/ ~env.key \/ env.raises) =>
        /\ calls = <<>>
        /\ table = {}
        /\ pc = "main_done" => exit_code = 1
        /\ exit_code # 0

\* witness of C9: a run with records to load has ended because the
\* credential was unset
C9_Witness ==
    /\ pc = "main_done"
    /\ records # <<>>
    /\ env.url
    /\ ~env.key
    /\ client_status = "key_unset"
    /\ exit_code = 1

\* C10: the exit status is 0 exactly when extraction yielded at least one
\* record, the sink client was obtained and the loader's final error count
\* is zero, and 1 otherwise; once extraction and sink configuration succeed
\* the status is the loader's result.
C10_ExitStatus ==
    pc = "main_done" =>
        /\ exit_code \in {0, 1}
        /\ exit_code = 0 <=>
            (records # <<>> /\ client_status = "connected" /\ total_errors = 0)
        /\ (records # <<>> /\ client_status = "connected") =>
            (exit_code = 0 <=> success)

\* witness of C10: a live run has ended with status 1 because the loader
\* counted errors
C10_Witness ==
    /\ pc = "main_done"
    /\ ~dry_run
    /\ client_status = "connected"
    /\ total_errors > 0
    /\ exit_code = 1

\* the three organization types of the schema
TypeSchool == <<"S", "c", "h", "o", "o", "l">>
TypeDistrict == <<"D", "i", "s", "t", "r", "i", "c", "t">>
TypeState == <<"S", "t", "a", "t", "e">>

\* C16: organization-type normalization is case-insensitive and maps a value
\* equal to "state" to State, any value containing "district" to District
\* (also when it contains "school"), any other value containing "school" to
\* School, and returns every other value unchanged.
C16_OrgTypeNormalization ==
    (fn = "normalize_org_type" /\ fpc = "done") =>
        LET low == Lower(Strip(arg)) IN
        /\ low = <<"s", "t", "a", "t", "e">> => res = TypeState
        /\ Contains(low, <<"d", "i", "s", "t", "r", "i", "c", "t">>) => res = TypeDistrict
        /\ (Contains(low, <<"s", "c", "h", "o", "o", "l">>) /\ ~Contains(low, <<"d", "i", "s", "t", "r", "i", "c", "t">>)) => res = TypeSchool
        /\ (low # <<"s", "t", "a", "t", "e">> /\ ~Contains(low, <<"d", "i", "s", "t", "r", "i", "c", "t">>) /\ ~Contains(low, <<"s", "c", "h", "o", "o", "l">>)) => res = arg
        /\ arg = <<"P", "u", "b", "l", "i", "c", " ", "S", "c", "h", "o", "o", "l", " ", "D", "i", "s", "t", "r", "i", "c", "t">> => res = TypeDistrict
        /\ arg = <<"P", "u", "b", "l", "i", "c", " ", "S", "c", "h", "o", "o", "l">> => res = TypeSchool

\* witness of C16: "Public School District" has been normalized to District
C16_Witness ==
    /\ fn = "normalize_org_type"
    /\ fpc = "done"
    /\ arg = <<"P", "u", "b", "l", "i", "c", " ", "S", "c", "h", "o", "o", "l", " ", "D", "i", "s", "t", "r", "i", "c", "t">>
    /\ res = TypeDistrict

\* C18: integer coercion is total: it returns null for the empty string, the
\* sentinel "N", the native missing value and every value that does not parse
\* as an integer once thousands separators are removed, and the parsed
\* integer otherwise ("1,234" gives 1234, "7" gives 7), with no range check.
C18_ParseIntTotal ==
    (fn = "parse_int" /\ fpc = "done") =>
        LET parsed == PyIntOfStr(RemoveCommas(PyStr(arg))) IN
        /\ res.k \in {"null", "int"}
        /\ (arg \in {NaN, Absent, StrCell(<<>>), StrCell(<<"N">>)}) => res = Null
        /\ ~parsed.ok => res = Null
        /\ (arg \notin {NaN, Absent, StrCell(<<>>), StrCell(<<"N">>)} /\ parsed.ok) =>
                res = IntVal(parsed.n)
        /\ arg = StrCell(<<"1", ",", "2", "3", "4">>) => res = IntVal(1234)
        /\ arg = StrCell(<<"7">>) => res = IntVal(7)

\* witness of C18: "1,234" has been coerced to 1234
C18_Witness ==
    /\ fn = "parse_int"
    /\ fpc = "done"
    /\ arg = StrCell(<<"1", ",", "2", "3", "4">>)
    /\ res = IntVal(1234)

\* the text of a cell without one trailing percent sign
WithoutTrailingPercent(t) ==
    IF t # <<>> /\ t[Len(t)] = "%" THEN SubSeq(t, 1, Len(t) - 1) ELSE t

\* C19: in every domain decimal coercion strips a trailing percent sign and
\* thousands separators before parsing, returns null for the empty string,
\* "N" and the native missing value and the parsed value otherwise, so that
\* "1,234.5%" coerces to the same value in every pipeline.
C19_DecimalCoercionStripsSeparators ==
    (fn \in {"parse_pct", "parse_decimal"} /\ fpc = "done") =>
        LET parsed == PyFloatOfStr(RemoveCommas(WithoutTrailingPercent(PyStr(arg)))) IN
        /\ (arg \in {NaN, Absent, StrCell(<<>>), StrCell(<<"N">>)}) => res = Null
        /\ (arg \notin {NaN, Absent, StrCell(<<>>), StrCell(<<"N">>)} /\ parsed.ok) =>
                res = parsed.v
        /\ arg = StrCell(<<"1", ",", "2", "3", "4", ".", "5", "%">>) => res = FloatVal(1234500)

\* ------------------------------------------------- validator properties
ValidatorFns == DOMAIN ValidatorDomain \cup {"validate_school_record"}
Validated == fpc = "done" /\ fn \in ValidatorFns
FactValidated == fpc = "done" /\ fn \in DOMAIN ValidatorDomain
SchoolValidated == fpc = "done" /\ fn = "validate_school_record"

\* the validator named f applied to a row
Validate(f, row) ==
    IF f = "validate_school_record" THEN ValidateSchool(row, "source.csv")
    ELSE ValidateFact(ValidatorDomain[f], row)

RequiredCols(f) ==
    IF f = "validate_school_record" THEN SchoolCols
    ELSE {"SY"} \cup KeyCols(ValidatorDomain[f])

GoodRow(f) ==
    IF f = "validate_school_record" THEN GoodSchoolRow ELSE GoodFactRow(ValidatorDomain[f])

\* the verdict on column c of the row taken alone: every other required field
\* is replaced by a valid one
AloneVerdict(f, row, c) == Validate(f, [GoodRow(f) EXCEPT ![c] = row[c]])

\* the required columns of the row whose rule is violated
ViolatedCols(f, row) == {c \in RequiredCols(f) : ~AloneVerdict(f, row, c).ok}

ClaimBlank(c) ==
    \/ c \in {NaN, Absent}
    \/ c.k = "str" /\ (\A k \in 1..Len(c.s) : IsSpace(c.s[k]))
    \/ c.k = "str" /\ Strip(c.s) = <<"n", "a", "n">>

KeysOf(f) == IF f = "validate_school_record" THEN SchoolColumns ELSE KeyColumns[ValidatorDomain[f]]

\* the integer a school-year cell denotes: an int, a text of digits, or a float
\* without fractional part
YearInteger(c) ==
    CASE c.k = "int" -> [is |-> TRUE, y |-> c.n]
      [] c.k = "str" /\ Strip(c.s) # <<>> /\ AllDigits(Strip(c.s)) ->
            [is |-> TRUE, y |-> DigitsValue(Strip(c.s))]
      [] c.k = "float" /\ c.n % 1000 = 0 -> [is |-> TRUE, y |-> c.n \div 1000]
      [] OTHER -> [is |-> FALSE, y |-> 0]

\* C12: in the enrollment, attendance and assessment validators a row whose
\* other required fields are valid is accepted exactly when its school year is
\* an integer in 2000..2100; an integer outside gets the range reason and not
\* the missing reason.
C12_YearAcceptedIffInRange ==
    (FactValidated /\ \A e \in Range(KeysOf(fn)) : ~ClaimBlank(arg[e.col])) =>
        LET yi == YearInteger(arg["SY"]) IN
        /\ res.ok <=> (yi.is /\ 2000 <= yi.y /\ yi.y <= 2100)
        /\ (yi.is /\ (yi.y < 2000 \/ yi.y > 2100)) =>
            /\ InvalidYear \in Range(res.errors)
            /\ MissingYear \notin Range(res.errors)

\* a present school-year cell that is no integer: text holding a character
\* that is neither digit, separator nor space
Unparseable(c) ==
    /\ c.k = "str"
    /\ \E k \in 1..Len(c.s) : ~IsDigit(c.s[k]) /\ ~IsSpace(c.s[k]) /\ c.s[k] # ","

\* C13: a row whose school-year cell is present but is not an integer is
\* rejected with a reason other than the one given for a missing school year.
C13_UnparseableYearDistinctReason ==
    (FactValidated /\ Unparseable(arg["SY"])) =>
        /\ ~res.ok
        /\ MissingYear \notin Range(res.errors)

BlankMetrics(d, row) == [c \in FactColumns(d) |-> IF c \in MetricCols(d) THEN NaN ELSE row[c]]

\* metric cells the claims name as coercing to null: blank, "N", missing, garbage
NullMetricCells == {NaN, Absent, StrCell(<<>>), StrCell(<<"N">>), StrCell(<<"x">>)}

\* C15: metric cells never change the verdict (it is the verdict on the row
\* with all metrics blank, and a row with valid required fields is accepted);
\* a metric that coerces to null is stored as null.
C15_MetricsNeverReject ==
    FactValidated =>
        LET d == ValidatorDomain[fn] IN
        /\ res.ok = ValidateFact(d, BlankMetrics(d, arg)).ok
        /\ res.errors = ValidateFact(d, BlankMetrics(d, arg)).errors
        /\ (\A c \in RequiredCols(fn) : arg[c] = GoodRow(fn)[c]) => res.ok
        /\ res.ok => \A e \in Range(MetricColumns[d]) :
            /\ arg[e.col] \in NullMetricCells => res.rec[e.field] = Null
            /\ Coerce(e.parser, arg[e.col]) = Null => res.rec[e.field] = Null

C15_Witness ==
    /\ FactValidated
    /\ fn = "validate_enrollment_record"
    /\ res.ok
    /\ arg["TOTAL_CNT"] = StrCell(<<"x">>)
    /\ res.rec["total_enrollment"] = Null
    /\ \A e \in Range(MetricColumns["enrollment"]) :
        e.col # "TOTAL_CNT" => arg[e.col] = StrCell(<<"N">>) /\ res.rec[e.field] = Null

\* C17: an accepted directory record has an organization type in
\* {School, District, State}; a blank type is rejected as missing, a type that
\* normalizes outside the set as invalid.
C17_OrgTypeMembership ==
    SchoolValidated =>
        LET c == arg["ORG_TYPE"] IN
        /\ res.ok => res.rec.org_type \in {TypeSchool, TypeDistrict, TypeState}
        /\ ClaimBlank(c) =>
            ~res.ok /\ MissingOrgType \in Range(res.errors) /\ InvalidOrgType \notin Range(res.errors)
        /\ (~ClaimBlank(c) /\ NormalizeOrgType(Strip(PyStr(c))) \notin {TypeSchool, TypeDistrict, TypeState}) =>
            ~res.ok /\ InvalidOrgType \in Range(res.errors) /\ MissingOrgType \notin Range(res.errors)

C17_Witness ==
    /\ SchoolValidated
    /\ arg["ORG_TYPE"] = StrCell(<<"O", "t", "h", "e", "r">>)
    /\ res.errors = <<InvalidOrgType>>

\* ------------------------------------------------------ fold properties
\* the raw rows read from source k, in row order
RowsOf(k) ==
    LET es == SelectSeq(history, LAMBDA e : e.src = k)
    IN  [n \in 1..Len(es) |-> es[n].row]

\* the valid occurrences of the first k sources in processing order: source
\* after source, and inside a source its distinct rows in row order
RECURSIVE Occurrences(_)
Occurrences(k) ==
    IF k = 0 THEN <<>>
    ELSE Occurrences(k - 1) \o ValidRecords(DropDuplicates(RowsOf(k)), CsvSources[k])

\* positions in the occurrence list occ that hold school id
OccurrencesOf(occ, id) == {n \in 1..Len(occ) : occ[n].school_id = id}

SeenIds(occ) == {occ[n].school_id : n \in 1..Len(occ)}

LastOf(ns) == CHOOSE n \in ns : \A k \in ns : k <= n

\* C20: once the fold over the sources has returned, the directory holds
\* exactly the school ids that had a valid occurrence, each with the whole
\* record of its last valid occurrence in processing order.
C20_LastValidOccurrenceWins ==
    fold_pc = "done" =>
        LET occ == Occurrences(src_idx) IN
        /\ DOMAIN all_schools = SeenIds(occ)
        /\ \A id \in SeenIds(occ) : all_schools[id] = occ[LastOf(OccurrencesOf(occ, id))]

\* one school id occurs in two sources and twice in the later one, under
\* different names and types
C20_Witness ==
    /\ fold_pc = "done"
    /\ LET occ == Occurrences(src_idx) IN
       \E id \in SeenIds(occ) : \E a, b, c \in OccurrencesOf(occ, id) :
        /\ a < b /\ b < c
        /\ c = LastOf(OccurrencesOf(occ, id))
        /\ occ[a].source_file # occ[b].source_file
        /\ occ[b].source_file = occ[c].source_file
        /\ occ[b].school_name # occ[c].school_name
        /\ occ[b].org_type # occ[c].org_type
        /\ all_schools[id] = occ[c]
        /\ duplicate_count = 2

\* ------------------------------------------------- extraction properties
\* the natural key of a record of the running script
KeyOf(rec) == [f \in NaturalKey[domain] |-> rec[f]]

\* C21: the record sequence handed to the loader holds no two records with
\* the same natural key.
C21_NoDuplicateKeysHandedOver ==
    pc = "loader_entry" =>
        \A p, q \in 1..Len(records) : p # q => KeyOf(records[p]) # KeyOf(records[q])


\* the rows a finished call of the extractor read and validated
RowsRead == RowsToValidate(domain, arg.rows)

Extracted == fn = ExtractorOf[domain] /\ fpc = "done"

\* the extractor has returned and its caller has not yet gone on
JustExtracted == Extracted /\ pc \in {"main_start", "idle"}

\* the records of the rows the validator accepts, in row order
RECURSIVE AcceptedInOrder(_, _)
AcceptedInOrder(d, rows) ==
    IF rows = <<>> THEN <<>>
    ELSE LET v == ValidateRow(d, Head(rows)) IN
         (IF v.ok THEN <<v.rec>> ELSE <<>>) \o AcceptedInOrder(d, Tail(rows))

ReasonClass(reason) ==
    CASE reason \in {"CSV file not found", "File not found"} -> "not_found"
      [] reason = "Empty CSV file" -> "empty"
      [] reason \in {"Error reading CSV", "Missing required columns"} -> "malformed"
      [] OTHER -> "none"

\* which of the three conditions the source of the call is in
SourceCondition ==
    CASE arg.kind \in {"absent", "vanished"} -> "not_found"
      [] arg.kind = "no_columns" -> "empty"
      [] arg.kind = "readable" /\ arg.rows = <<>> -> "empty"
      [] arg.kind \in {"malformed", "missing_columns"} -> "malformed"
      [] OTHER -> "has_rows"

\* C25: an absent, empty (a source without data rows included) or
\* structurally unreadable source yields zero records and a reason naming
\* which of the three conditions occurred.
C25_NoRowsGivesDistinctReason ==
    (Extracted /\ SourceCondition # "has_rows")
    => /\ res.valid = <<>>
       /\ ReasonClass(res.reason) = SourceCondition

\* --------------------------------------------- collection-stage properties
UnusableStatuses == {"missing", "unreadable", "missing_columns"}

\* no source of the list delivered a valid record
NoValidRecordAnywhere ==
    \A k \in 1..Len(CsvSources) : ValidRecords(DropDuplicates(RowsOf(k)), CsvSources[k]) = <<>>

\* the step that meets an unusable source adds nothing, keeps what was merged
\* and goes on with the loop over the sources
SkipKeepsDirectory ==
    (src_idx' = src_idx + 1 /\ src_status' \in UnusableStatuses)
    => /\ all_schools' = all_schools
       /\ duplicate_count' = duplicate_count
       /\ pending' = <<>>
       /\ fold_pc' \in {"loop", "fold"}

\* the fold returns only after the last source, and main() gives up exactly
\* when no source delivered a valid record
FoldRunsToTheEnd ==
    /\ fold_pc \in {"done", "returned"} => src_idx = Len(CsvSources)
    /\ pc \in {"main_done", "main_extracted"}
       => ((pc = "main_done" /\ exit_code = 1) <=> NoValidRecordAnywhere)

\* C26: a source that is missing, unreadable or lacks an identifying column
\* contributes no records and does not stop the fold: the later sources are
\* still processed, the merged records are kept, and the run fails only when
\* no source yields a valid record.
C26_UnusableSourceIsSkipped == [][SkipKeepsDirectory]_vars /\ []FoldRunsToTheEnd

\* the last source of the list was unreadable, schools merged from two
\* earlier sources are kept and the run goes on to the load
C26_Witness ==
    /\ fold_pc = "returned"
    /\ src_status = "unreadable"
    /\ pc = "main_extracted"
    /\ Cardinality(DOMAIN all_schools) = 2
    /\ \E a, b \in 1..Len(history) : history[a].src # history[b].src

\* ------------------------------------------------ call-ordering properties
\* position of the latest batch call among the calls issued so far
LastBatchPos == LastOf({p \in 1..Len(calls) : calls[p].kind = "batch"})

\* the call c may be issued next: a batch call only when the previous batch
\* call returned and, if it failed, all its per-record retries were made; a
\* retry only for the next record of the batch whose call failed
IssuedInTurn(c) ==
    IF calls = <<>> THEN c.kind = "batch" /\ c.at = 0
    ELSE LET p == LastBatchPos
             b == calls[p]
             retried == Len(calls) - p
         IN  IF c.kind = "batch"
             THEN /\ retried = (IF b.ok THEN 0 ELSE Len(b.rows))
                  /\ c.at = b.at + Len(b.rows)
             ELSE /\ ~b.ok
                  /\ retried < Len(b.rows)
                  /\ c.at = b.at + retried
                  /\ c.rows = <<b.rows[retried + 1]>>

\* a step issues at most one call, and issues it in turn
OneCallAtATime ==
    calls' # calls =>
        /\ Len(calls') = Len(calls) + 1
        /\ SubSeq(calls', 1, Len(calls)) = calls
        /\ IssuedInTurn(calls'[Len(calls')])

\* calls are issued only once the extractor has returned with every row of
\* the source validated
NoCallBeforeExtraction ==
    calls # <<>> =>
        /\ fpc = "done"
        /\ res.todo = <<>>
        /\ Len(res.valid) + res.invalid = Len(RowsRead)
        /\ records = res.valid

\* C27: no sink call is issued before every source row has been validated,
\* and the calls are strictly sequential: the call of batch k+1 comes after
\* the call of batch k and, when that failed, after all its retries.
C27_CallsStrictlySequential == []NoCallBeforeExtraction /\ [][OneCallAtATime]_vars

\* three rows were validated, then the first batch of two failed, both its
\* records were retried, and only then the second batch was sent
C27_Witness ==
    /\ Len(arg.rows) = 3
    /\ Len(records) = 3
    /\ Len(calls) = 4
    /\ calls[1].kind = "batch" /\ ~calls[1].ok /\ Len(calls[1].rows) = 2
    /\ calls[2].kind = "single"
    /\ calls[3].kind = "single"
    /\ calls[4].kind = "batch" /\ calls[4].at = 2

\* ----------------------------------------------------- rows sent to the sink
\* rec has non-blank identifiers and a school year in 2000..2100
WellKeyed(rec) ==
    /\ \A f \in NaturalKey[domain] \ {"school_year"} : ~IsBlankText(rec[f])
    /\ rec.school_year # Null
    /\ rec.school_year.n >= 2000
    /\ rec.school_year.n <= 2100

\* the number of rows sent by batch calls
BatchRowCount == RowCount(BatchCalls)

\* what main() hands to the loader are the records of the accepted rows, and
\* every row of every call is one of them, well keyed
OnlyAcceptedRowsSent ==
    /\ pc = "main_extracted" => records = AcceptedInOrder(domain, arg.rows)
    /\ \A p \in 1..Len(calls) : \A q \in 1..Len(calls[p].rows) :
        /\ calls[p].rows[q] \in Range(records)
        /\ WellKeyed(calls[p].rows[q])
    /\ BatchRowCount <= Len(records)

\* the records handed to the loader are not changed during the load
RecordsKeptDuringLoad == pc # "main_start" => records' = records

\* C28: every row in any upsert call, batch or individual, is a record the
\* validator accepted, with non-blank identifiers and a school year in
\* 2000..2100; a rejected row is never sent or retried.
C28_RejectedRowNeverReachesSink == []OnlyAcceptedRowsSent /\ [][RecordsKeptDuringLoad]_vars

\* the rows of the source the validator rejected
RejectedRows == {n \in 1..Len(arg.rows) : ~ValidateRow(domain, arg.rows[n]).ok}

\* of three rows one had a year out of range; the batch of the two accepted
\* rows failed and both were retried
C28_Witness ==
    /\ pc = "loader_return"
    /\ Len(arg.rows) = 3
    /\ \E n \in RejectedRows : arg.rows[n]["SY"] = IntCell(2101)
    /\ Cardinality(RejectedRows) = 1
    /\ Len(calls) = 3
    /\ ~calls[1].ok
    /\ calls[2].kind = "single"
    /\ calls[3].kind = "single"

\* ----------------------------------------------------- fold accounting
\* row n of the read log is delivered by its extractor: it is the first of
\* the equal rows of its source and the validator accepts it
Delivered(n) ==
    /\ \A m \in 1..(n - 1) : history[m] # history[n]
    /\ ValidateSchool(history[n].row, CsvSources[history[n].src]).ok

\* the valid records folded so far: those the sources read so far delivered,
\* less those of the current source still waiting
FoldedSoFar == Cardinality({n \in 1..Len(history) : Delivered(n)}) - Len(pending)

\* keys in the directory + overwrite counter
Accounted == Cardinality(DOMAIN all_schools) + duplicate_count

\* the account is empty when the fold starts; while records of a source wait
\* to be folded and once the fold has returned, it equals the valid records
\* folded so far (the steps in between are covered by FoldOnlyGrows)
FoldAccount ==
    /\ history = <<>> => Accounted = 0
    /\ (pending # <<>> \/ fold_pc = "done") => Accounted = FoldedSoFar

\* folding one record adds one to the account, every other step of the fold
\* leaves it as it is; the overwrite counter never decreases and the
\* directory never loses a key
FoldOnlyGrows ==
    /\ Accounted' = Accounted + (IF Len(pending') < Len(pending) THEN 1 ELSE 0)
    /\ Len(pending') < Len(pending) => pending' = Tail(pending)
    /\ duplicate_count' >= duplicate_count
    /\ DOMAIN all_schools \subseteq DOMAIN all_schools'

\* C29: at every point of the fold, keys in the directory + overwrite counter
\* = valid records folded so far; the counter never decreases and the
\* directory never loses a key.
C29_FoldAccounting == []FoldAccount /\ [][FoldOnlyGrows]_vars

\* in the second source or later: a school was stored and overwritten once,
\* and a third valid record is still waiting to be folded
C29_Witness ==
    /\ fold_pc = "fold"
    /\ duplicate_count = 1
    /\ Cardinality(DOMAIN all_schools) = 1
    /\ Len(pending) = 1
    /\ src_idx >= 2

\* -------------------------------------------- school year across validators
\* what a validator's result says about the school year of a row whose
\* identifiers are all present
YearVerdict(v) ==
    IF v.ok THEN <<"accepted", v.rec.school_year>>
    ELSE IF MissingYear \in Range(v.errors) THEN <<"missing">>
    ELSE <<"out_of_range">>

\* the validator of domain d applied to the school-year cell c in a row whose
\* other fields are good
YearVerdictOf(d, c) == YearVerdict(ValidateFact(d, [GoodFactRow(d) EXCEPT !["SY"] = c]))

\* C30: for one and the same school-year cell the enrollment, attendance and
\* assessment validators reach the same verdict: accepted with the same
\* year, rejected as missing, or rejected as out of range.
C30_SameYearVerdict ==
    (FactValidated /\ \A e \in Range(KeysOf(fn)) : ~ClaimBlank(arg[e.col])) =>
        \A d \in FactDomains : YearVerdictOf(d, arg["SY"]) = YearVerdict(res)

\* ------------------------------------------------------- sink properties
\* the sink one uninterrupted, fully successful load of the source leaves:
\* one row per natural key, holding the source's record for it
SinkAfterOneRun == SinkRows(1..Len(records), "new")

AllPositions == 1..Len(records)

====
